---- MODULE Spec2Model ----
(***************************************************************************)
(* Concurrent FIFO queues of MPiras055/testQueue: the ring segments        *)
(* CRQueue (Variant-C), PRQueue (Variant-P) and MTQueue (Variant-M), the   *)
(* segment base, the hazard-pointer table and the adapters LinkedAdapter,  *)
(* BoundedItemAdapter and BoundedSegmentAdapter.                           *)
(*                                                                         *)
(* Every action performs one access to shared memory followed by the       *)
(* thread-local computation up to the next shared access.  A pointer is a  *)
(* natural number: 0 is nullptr, an even number is a payload, an odd one   *)
(* is a reserved marker of Variant-P.  The closed bit of a segment's tail  *)
(* and the unsafe bit of a cell's index are kept as booleans beside the    *)
(* 63-bit index.                                                           *)
(***************************************************************************)
EXTENDS Integers, Sequences, FiniteSets, TLC

\* ---------------------------------------------------------------- bounds
MaxSegs == 3        \* segment addresses the allocator can hand out
MaxItems == 8       \* a producer numbers its items 1..MaxItems-1 (payload encoding)
SpinLimit == 0      \* stands for the 4*1024 empty-cell retries of pop
Two64 == 1048576    \* stands for 2^64, the width of the adapter counters
MaxThreads == 3     \* maxThreads: thread ids 1..MaxThreads, rows of the hazard table
MaxTicket == 3      \* fetch_add hands out tickets less than this far past the ring of a segment

\* ------------------------------------------------------ program constants
kHpTail == 0
kHpHead == 1
maxHPs == 2
TRY_CLOSE_CRQ == 10
TRY_CLOSE_PRQ == 10
TRY_CLOSE_MTQ == 10
MAX_SEGMENTS == 4
RefreshPeriod == 256

NULL == 0
SegIds == 1..MaxSegs

\* ------------------------------------------------------------- payloads
Item(p, k) == 2 * (p * MaxItems + k)
ProducerOf(i) == (i \div 2) \div MaxItems
SeqOf(i) == (i \div 2) % MaxItems
isBottom_never(v) == FALSE
isBottom(v) == v % 2 = 1
threadLocalBottom(tid) == 2 * tid + 1

\* ------------------------------------------------------- size arithmetic
RECURSIVE isPowTwo(_)
isPowTwo(x) == x >= 1 /\ (x = 1 \/ (x % 2 = 0 /\ isPowTwo(x \div 2)))

RECURSIVE PowLoop(_, _)
PowLoop(x, p) == IF x > p THEN PowLoop(x, 2 * p) ELSE p

nextPowTwo(x) == PowLoop(IF isPowTwo(x) THEN x + 1 ELSE x, 1)

\* ring size chosen by the segment constructors
SegmentSize(variant, pow2, s) ==
  IF ~pow2 THEN s
  ELSE CASE variant = "C" -> IF s # 1 /\ isPowTwo(s) THEN s ELSE nextPowTwo(s)
         [] variant = "P" -> IF isPowTwo(s) THEN s ELSE nextPowTwo(s)
         [] variant = "M" -> IF s > 1 /\ isPowTwo(s) THEN s ELSE nextPowTwo(s)

\* maxSegments of the bounded-segment adapter
AdapterMaxSegments(pow2, k) ==
  IF pow2 THEN (IF k > 1 /\ isPowTwo(k) THEN k ELSE nextPowTwo(k)) ELSE k

\* sizeRing kept by the adapter (the value handed to every Segment constructor)
AdapterSizeRing(adapter, pow2, s, k) ==
  CASE adapter = "bitem" ->
         IF pow2 THEN (IF s > 1 /\ isPowTwo(s) THEN s ELSE nextPowTwo(s)) ELSE s
    [] adapter = "bseg" ->
         IF pow2 THEN (IF isPowTwo(s) THEN s ELSE nextPowTwo(s)) \div AdapterMaxSegments(pow2, k)
         ELSE s
    [] OTHER -> s

\* capacity() of the queue object
Capacity(adapter, variant, pow2, s, k) ==
  CASE adapter = "bseg" -> AdapterSizeRing(adapter, pow2, s, k) * AdapterMaxSegments(pow2, k)
    [] adapter = "bare" -> SegmentSize(variant, pow2, s)
    [] OTHER -> AdapterSizeRing(adapter, pow2, s, k)

\* cache remap with padded cells: one cell per cache line
cellsPerCacheLine == 1
Remap(n, i) == (i % (n \div cellsPerCacheLine)) * cellsPerCacheLine + i \div (n \div cellsPerCacheLine)

\* unsigned 64-bit subtraction
U64Sub(a, b) == (a - b + Two64) % Two64

VARIABLES
  cfg,      \* the constructed queue: adapter, variant, ring size, capacity, maxSegments
  seg,      \* segment memory: head, tail, closed bit, next, cells
  live,     \* addresses currently allocated
  freed,    \* addresses deallocated and not handed out again
  qhead,    \* the adapter's head pointer
  qtail,    \* the adapter's tail pointer
  HP,       \* Hazard[tid][iHP]
  Retired,  \* Retired[tid]
  ctr,      \* itemsPushed, itemsPopped, segmentHeadIdx, segmentTailIdx; All2All cursors
  th,       \* per thread: program counter and locals
  prog,     \* per thread: the calls it still has to make
  hist,     \* observed calls and results
  uaf       \* a freed segment has been dereferenced

vars == <<cfg, seg, live, freed, qhead, qtail, HP, Retired, ctr, th, prog, hist, uaf>>

Threads == 1..MaxThreads
N == cfg.N

\* ------------------------------------------------------------- segments
\* a cell as set by the segment constructors for logical index i
InitCell_zero(i) == [val |-> NULL, idx |-> 0, unsafe |-> FALSE]
InitCell(i) == [val |-> NULL, idx |-> i, unsafe |-> FALSE]

\* Segment(size, tid, start): cells start..start+N-1 at their positions
NewSegment(n, start) ==
  [start |-> start, head |-> start, tail |-> start, closed |-> FALSE, next |-> NULL,
   cell |-> [p \in 0..(n - 1) |->
               InitCell(CHOOSE i \in start..(start + n - 1) : Remap(n, i % n) = p)]]

\* the private push into a segment no other thread can reach yet
SoloPush_nothing(variant, n, s, item) == s
SoloPush(variant, n, s, item) ==
  LET p == Remap(n, s.tail % n) IN
  CASE variant = "C" ->
         [s EXCEPT !.tail = @ + 1,
                   !.cell[p] = [val |-> item, idx |-> s.tail, unsafe |-> FALSE]]
    [] variant = "P" ->
         [s EXCEPT !.tail = @ + 1,
                   !.cell[p] = [val |-> item, idx |-> s.tail + n, unsafe |-> FALSE]]
    [] variant = "M" ->
         [s EXCEPT !.tail = @ + 1,
                   !.cell[p] = [val |-> item, idx |-> s.tail + 1, unsafe |-> FALSE]]

tailIndex_zero(s) == 0
tailIndex(s) == seg[s].tail
isClosed_never(s) == FALSE
isClosed(s) == seg[s].closed
getNextSegmentStartIndex(s) == seg[s].tail - 1

\* ------------------------------------------------------------- threads
IdleLocals ==
  [pc |-> "idle", op |-> 0, lseg |-> 0, lnext |-> 0, newTail |-> 0,
   sg |-> 0, site |-> "", tkt |-> 0, cidx |-> 0, cuns |-> FALSE, cval |-> 0,
   r |-> 0, ttIdx |-> 0, ttClosed |-> FALSE, tryc |-> 0, a |-> 0,
   ri |-> 0, rt |-> 0, res |-> 0, chk |-> FALSE, seen |-> {}, late |-> FALSE,
   sole |-> FALSE, lost |-> FALSE, i |-> 0, lap |-> 0, fails |-> 0]


\* the state after the constructor of the adapter (or of the bare segment)
\* (heap: the addresses operator new has to give out; tickets: how far past the
\* ring the runs are followed)
ConstructWith(tickets, heap, adapter, variant, pow2, size, k, programs) ==
  LET ring == SegmentSize(variant, pow2, AdapterSizeRing(adapter, pow2, size, k)) IN
  /\ cfg = [adapter |-> adapter, variant |-> variant, pow2 |-> pow2,
            N |-> ring,
            sizeRing |-> AdapterSizeRing(adapter, pow2, size, k),
            cap |-> Capacity(adapter, variant, pow2, size, k),
            K |-> AdapterMaxSegments(pow2, k), size |-> size, tickets |-> tickets]
  /\ seg = [s \in heap |-> NewSegment(ring, 0)]
  /\ live = {1}
  /\ freed = {}
  /\ qhead = 1
  /\ qtail = 1
  /\ HP = [t \in Threads |-> [h \in 0..(maxHPs - 1) |-> NULL]]
  /\ Retired = [t \in Threads |-> <<>>]
  /\ ctr = [itemsPushed |-> 0, itemsPopped |-> 0, segmentHeadIdx |-> 0, segmentTailIdx |-> 0]
  /\ th = [t \in Threads |-> IdleLocals]
  /\ prog = [t \in Threads |-> IF t \in DOMAIN programs THEN programs[t] ELSE <<>>]
  /\ hist = [invoked |-> {}, results |-> [t \in Threads |-> <<>>],
             drained |-> FALSE, overtaken |-> FALSE, falseEmpty |-> FALSE,
             len |-> -1, lenOver |-> FALSE, given |-> {},
             dropped |-> FALSE]
  /\ uaf = FALSE

ConstructOn(heap, adapter, variant, pow2, size, k, programs) ==
  ConstructWith(MaxTicket, heap, adapter, variant, pow2, size, k, programs)

Construct(adapter, variant, pow2, size, k, programs) ==
  ConstructOn(SegIds, adapter, variant, pow2, size, k, programs)

\* ------------------------------------------------------- calls and results
PushEntry ==
  CASE cfg.variant = "C" -> "c_push" [] cfg.variant = "P" -> "p_push"
    [] cfg.variant = "S" -> "s_push" [] OTHER -> "m_push"
PopEntry ==
  CASE cfg.variant = "C" -> "c_pop" [] cfg.variant = "P" -> "p_pop"
    [] cfg.variant = "S" -> "s_pop" [] OTHER -> "m_pop"

\* segment->push(item, tid) called from `site`
\* (fails counts the close attempts this call of the segment's push has lost)
CallPush(rec, s, site) ==
  [rec EXCEPT !.sg = s, !.site = site, !.tryc = 0, !.fails = 0, !.pc = PushEntry]
\* segment->pop(tid) called from `site`
CallPop(rec, s, site) == [rec EXCEPT !.sg = s, !.site = site, !.pc = PopEntry]
\* the item argument of the push call in progress; a negative entry of a program
\* is the call push(nullptr, tid)
PushArg(rec) == IF rec.op < 0 THEN NULL ELSE rec.op

\* the calls thread t has completed: op is the pushed item or 0 for pop, res the
\* value returned
ResultsOf(t) == hist.results[t]
PopsOf(t) == SelectSeq(ResultsOf(t), LAMBDA c : c.op = 0 /\ c.res # NULL)
Returned == UNION {{PopsOf(t)[i].res : i \in 1..Len(PopsOf(t))} : t \in Threads}

\* every push of every program has returned
NoPushPending ==
  \A u \in Threads : th[u].op = 0 /\ \A i \in 1..Len(prog[u]) : prog[u][i] = 0

\* the items whose push has returned true and that no pop has returned
Available ==
  {i \in hist.invoked : \E u \in Threads : \E k \in 1..Len(ResultsOf(u)) :
                           ResultsOf(u)[k] = [op |-> i, res |-> 1]} \ Returned
\* thread u is inside a pop call
InPop(u) == th[u].pc # "idle" /\ th[u].op = 0

\* a thread starts the next call of its program; `sole` marks a pop invoked
\* while an item is available and no other pop is running, until another pop
\* is invoked
Invoke(t) ==
  /\ th[t].pc = "idle"
  /\ prog[t] # <<>>
  /\ prog' = [prog EXCEPT ![t] = Tail(@)]
  /\ LET op == Head(prog[t])
         rec == [th[t] EXCEPT !.op = op, !.seen = IF op = 0 THEN Returned ELSE {},
                             !.late = op = 0 /\ NoPushPending,
                             !.sole = /\ op = 0
                                      /\ Available # {}
                                      /\ \A u \in Threads \ {t} : ~InPop(u)] IN
     /\ hist' = IF op = 0 THEN hist ELSE [hist EXCEPT !.invoked = @ \cup {op}]
     /\ th' = [u \in Threads |->
                 IF u # t THEN [th[u] EXCEPT !.sole = @ /\ op # 0]
                 ELSE IF cfg.adapter = "bare"
                 THEN (IF op = 0 THEN CallPop(rec, 1, "bare") ELSE CallPush(rec, 1, "bare"))
                 ELSE IF cfg.adapter = "mesh"
                 THEN [rec EXCEPT !.pc = IF op = 0 THEN "a_pop" ELSE "a_push"]
                 ELSE [rec EXCEPT !.pc = IF op = 0 THEN "po_load" ELSE "pu_load"]]
  /\ UNCHANGED <<cfg, seg, live, freed, qhead, qtail, HP, Retired, ctr, uaf>>

\* item comes out although a later item of its producer is in `seen`, the items
\* that pops had returned when this pop was invoked
Overtaken(item, seen) ==
  \E b \in seen : ProducerOf(b) = ProducerOf(item) /\ SeqOf(b) > SeqOf(item)

\* the call of thread t returns: push returns ok (1 or 0), pop returns a pointer;
\* drained records a nullptr from a pop invoked with no push pending or in progress,
\* falseEmpty a nullptr from a pop that ran as the sole consumer with an item available
Finish(t, rec, result) ==
  /\ th' = [th EXCEPT ![t] = [IdleLocals EXCEPT !.chk = rec.chk]]
  /\ hist' = [hist EXCEPT
                !.results[t] = Append(@, [op |-> rec.op, res |-> result]),
                !.drained = @ \/ (rec.op = 0 /\ result = NULL /\ rec.late),
                !.falseEmpty = @ \/ (rec.op = 0 /\ result = NULL /\ rec.sole),
                !.overtaken = @ \/ (rec.op = 0 /\ result # NULL /\ Overtaken(result, rec.seen))]

\* locals of a ring operation that are dead once the loop starts over
Fresh(rec) == [rec EXCEPT !.tkt = 0, !.cidx = 0, !.cuns = FALSE, !.cval = 0, !.r = 0,
                          !.ttIdx = 0, !.ttClosed = FALSE, !.a = 0]
\* locals of a ring operation that are dead once the cell has been dealt with
Forget(rec) == [rec EXCEPT !.cidx = 0, !.cuns = FALSE, !.cval = 0, !.r = 0,
                           !.ttIdx = 0, !.ttClosed = FALSE, !.a = 0]
\* pop goes round its inner loop: the cell is read again, and so is tt when the
\* retry counter is at a refresh point
Respin(rec) == [rec EXCEPT !.cidx = 0, !.cuns = FALSE, !.cval = 0,
                           !.ttIdx = IF rec.r % RefreshPeriod = 0 THEN 0 ELSE @,
                           !.ttClosed = IF rec.r % RefreshPeriod = 0 THEN FALSE ELSE @]
\* the locals of the ring operation are gone when it returns to the adapter
Leave(rec) == [Fresh(rec) EXCEPT !.sg = 0, !.site = "", !.tryc = 0, !.fails = 0]

AfterSegPush(r0, ok) ==
  LET rec == Leave(r0) IN
  CASE cfg.adapter = "linked" -> [rec EXCEPT !.pc = IF ok = 1 THEN "pu_okclr" ELSE "pu_alloc"]
    [] cfg.adapter = "bitem" ->
         IF ok = 1 THEN [rec EXCEPT !.pc = "pu_incr"]
         ELSE [rec EXCEPT !.chk = TRUE, !.pc = "pu_alloc"]
    [] OTHER ->
         IF ok = 1 THEN [rec EXCEPT !.pc = "pu_okclr"]
         ELSE [rec EXCEPT !.chk = TRUE, !.pc = "pu_next2"]

PushResult(t, rec, ok) ==
  IF rec.site = "bare" THEN Finish(t, rec, ok)
  ELSE /\ th' = [th EXCEPT ![t] = AfterSegPush(rec, ok)]
       /\ hist' = hist

\* what the caller of segment->pop does with its result
AfterSegPop(r0, item) ==
  LET rec == Leave(r0) IN
  IF item # NULL THEN [rec EXCEPT !.res = item, !.pc = "po_clr"]
  ELSE IF r0.site = "pop1" THEN [rec EXCEPT !.pc = "po_next"]
  ELSE [rec EXCEPT !.pc = "po_cas"]

PopResult(t, rec, item) ==
  IF rec.site = "bare" THEN Finish(t, rec, item)
  ELSE /\ th' = [th EXCEPT ![t] = AfterSegPop(rec, item)]
       /\ hist' = hist

\* dereferencing segment s
Touch(s) == uaf' = (uaf \/ s \notin live)


\* ---------------------------------------------------- adapters: push
Bounded == cfg.adapter \in {"bitem", "bseg"}
\* the top of the while(true) of push
PushLoopTop == IF cfg.adapter = "bitem" THEN "pu_len1" ELSE "pu_val"

\* tail.load() handed to HP.protect
Push_LoadTail(t) ==
  /\ th[t].pc = "pu_load"
  /\ th' = [th EXCEPT ![t] = [@ EXCEPT !.lseg = qtail, !.pc = "pu_prot"]]
  /\ UNCHANGED <<cfg, seg, live, freed, qhead, qtail, HP, Retired, ctr, prog, hist, uaf>>

\* HP.protect(kHpTail, ptr, tid): the store into the hazard slot
Push_Protect(t) ==
  /\ th[t].pc = "pu_prot"
  /\ HP' = [HP EXCEPT ![t][kHpTail] = th[t].lseg]
  /\ th' = [th EXCEPT ![t] = [@ EXCEPT !.pc = PushLoopTop]]
  /\ UNCHANGED <<cfg, seg, live, freed, qhead, qtail, Retired, ctr, prog, hist, uaf>>

\* lengthAcquire(): itemsPushed.load
Push_LengthPushed(t) ==
  /\ th[t].pc = "pu_len1"
  /\ th' = [th EXCEPT ![t] = [@ EXCEPT !.a = ctr.itemsPushed, !.pc = "pu_len2"]]
  /\ UNCHANGED <<cfg, seg, live, freed, qhead, qtail, HP, Retired, ctr, prog, hist, uaf>>

\* lengthAcquire(): itemsPopped.load, and the test against sizeRing
Push_LengthPopped(t) ==
  /\ th[t].pc = "pu_len2"
  /\ th' = [th EXCEPT ![t] =
              [@ EXCEPT !.pc = IF U64Sub(th[t].a, ctr.itemsPopped) >= cfg.sizeRing
                               THEN "pu_failclr" ELSE "pu_val"]]
  /\ UNCHANGED <<cfg, seg, live, freed, qhead, qtail, HP, Retired, ctr, prog, hist, uaf>>

\* ltail2 = tail.load(); if (ltail2 != ltail) protect it and start over
Push_Validate(t) ==
  /\ th[t].pc = "pu_val"
  /\ th' = [th EXCEPT ![t] =
              IF qtail # th[t].lseg
              THEN [@ EXCEPT !.lseg = qtail, !.chk = IF Bounded THEN FALSE ELSE @, !.pc = "pu_prot"]
              ELSE [@ EXCEPT !.pc = "pu_next"]]
  /\ UNCHANGED <<cfg, seg, live, freed, qhead, qtail, HP, Retired, ctr, prog, hist, uaf>>

\* lnext = ltail->next.load()
Push_LoadNext(t) ==
  /\ th[t].pc = "pu_next"
  /\ Touch(th[t].lseg)
  /\ LET nx == seg[th[t].lseg].next
         rec == [th[t] EXCEPT !.lnext = nx] IN
     th' = [th EXCEPT ![t] =
              IF nx # NULL THEN [rec EXCEPT !.pc = "pu_advance"]
              ELSE IF Bounded /\ rec.chk THEN [rec EXCEPT !.pc = "pu_isclosed"]
              ELSE CallPush(rec, rec.lseg, "push")]
  /\ UNCHANGED <<cfg, seg, live, freed, qhead, qtail, HP, Retired, ctr, prog, hist>>

\* tail.compare_exchange_strong(ltail, lnext)
Push_AdvanceTail(t) ==
  /\ th[t].pc = "pu_advance"
  /\ LET ok == qtail = th[t].lseg
         rec == [th[t] EXCEPT !.chk = IF Bounded THEN FALSE ELSE @] IN
     /\ qtail' = IF ok THEN th[t].lnext ELSE qtail
     /\ th' = [th EXCEPT ![t] =
                 IF ok THEN [rec EXCEPT !.lseg = rec.lnext, !.pc = "pu_prot"]
                 ELSE [rec EXCEPT !.pc = "pu_load"]]
  /\ UNCHANGED <<cfg, seg, live, freed, qhead, HP, Retired, ctr, prog, hist, uaf>>

\* if(check_push) check_push = ltail->isClosed()
Push_CheckClosed(t) ==
  /\ th[t].pc = "pu_isclosed"
  /\ Touch(th[t].lseg)
  /\ LET c == isClosed(th[t].lseg)
         rec == [th[t] EXCEPT !.chk = c] IN
     th' = [th EXCEPT ![t] =
              IF ~c THEN CallPush(rec, rec.lseg, "push")
              ELSE [rec EXCEPT !.pc = IF cfg.adapter = "bseg" THEN "pu_next2" ELSE "pu_alloc"]]
  /\ UNCHANGED <<cfg, seg, live, freed, qhead, qtail, HP, Retired, ctr, prog, hist>>

\* itemsPushed.fetch_add(1) after a push into the tail segment
Push_CountItem(t) ==
  /\ th[t].pc = "pu_incr"
  /\ ctr' = [ctr EXCEPT !.itemsPushed = (@ + 1) % Two64]
  /\ th' = [th EXCEPT ![t] = [@ EXCEPT !.pc = "pu_okclr"]]
  /\ UNCHANGED <<cfg, seg, live, freed, qhead, qtail, HP, Retired, prog, hist, uaf>>

\* bounded-segment adapter: if(ltail->next.load() != nullptr) continue
Push_RecheckNext(t) ==
  /\ th[t].pc = "pu_next2"
  /\ Touch(th[t].lseg)
  /\ th' = [th EXCEPT ![t] =
              [@ EXCEPT !.pc = IF seg[th[t].lseg].next # NULL THEN "pu_val" ELSE "pu_cnt1"]]
  /\ UNCHANGED <<cfg, seg, live, freed, qhead, qtail, HP, Retired, ctr, prog, hist>>

\* segmentCount(): segmentTailIdx.load
Push_CountTail(t) ==
  /\ th[t].pc = "pu_cnt1"
  /\ th' = [th EXCEPT ![t] = [@ EXCEPT !.a = ctr.segmentTailIdx, !.pc = "pu_cnt2"]]
  /\ UNCHANGED <<cfg, seg, live, freed, qhead, qtail, HP, Retired, ctr, prog, hist, uaf>>

\* segmentCount(): segmentHeadIdx.load, and the test against maxSegments
Push_CountHead(t) ==
  /\ th[t].pc = "pu_cnt2"
  /\ th' = [th EXCEPT ![t] =
              [@ EXCEPT !.pc = IF (U64Sub(th[t].a, ctr.segmentHeadIdx) + 1) % Two64 >= cfg.K
                               THEN "pu_failclr" ELSE "pu_alloc"]]
  /\ UNCHANGED <<cfg, seg, live, freed, qhead, qtail, HP, Retired, ctr, prog, hist, uaf>>

\* addresses operator new may return
FreeAddrs_any == DOMAIN seg
FreeAddrs ==
  LET fresh == DOMAIN seg \ (live \cup freed) IN
  freed \cup (IF fresh = {} THEN {} ELSE {CHOOSE a \in fresh : \A b \in fresh : a <= b})

\* newTail = new Segment(sizeRing, maxThreads, ltail->getNextSegmentStartIndex());
\* newTail->push(item, tid)
Push_NewSegment(t) ==
  /\ th[t].pc = "pu_alloc"
  /\ Touch(th[t].lseg)
  /\ \E a \in FreeAddrs :
       /\ seg' = [seg EXCEPT ![a] =
                    SoloPush(cfg.variant, N,
                             NewSegment(N, getNextSegmentStartIndex(th[t].lseg)), PushArg(th[t]))]
       /\ live' = live \cup {a}
       /\ freed' = freed \ {a}
       /\ th' = [th EXCEPT ![t] = [@ EXCEPT !.newTail = a, !.pc = "pu_link"]]
  /\ UNCHANGED <<cfg, qhead, qtail, HP, Retired, ctr, prog, hist>>

\* ltail->next.compare_exchange_strong(nullNode, newTail); delete newTail on
\* failure (`lost` remembers that this call has discarded a private segment)
Push_Link(t) ==
  /\ th[t].pc = "pu_link"
  /\ Touch(th[t].lseg)
  /\ LET lt == th[t].lseg
         nt == th[t].newTail IN
     IF seg[lt].next = NULL
     THEN /\ seg' = [seg EXCEPT ![lt].next = nt]
          /\ th' = [th EXCEPT ![t] =
                      [@ EXCEPT !.pc = IF cfg.adapter = "bitem" THEN "pu_incr2" ELSE "pu_swing"]]
          /\ UNCHANGED <<live, freed>>
     ELSE /\ seg' = seg
          /\ live' = live \ {nt}
          /\ freed' = freed \cup {nt}
          /\ th' = [th EXCEPT ![t] =
                      [@ EXCEPT !.lseg = seg[lt].next, !.newTail = 0, !.lost = TRUE,
                                !.chk = IF Bounded THEN FALSE ELSE @, !.pc = "pu_prot"]]
  /\ UNCHANGED <<cfg, qhead, qtail, HP, Retired, ctr, prog, hist>>

\* bounded-item adapter: itemsPushed.fetch_add(1) after a successful link
Push_CountLinked(t) ==
  /\ th[t].pc = "pu_incr2"
  /\ ctr' = [ctr EXCEPT !.itemsPushed = (@ + 1) % Two64]
  /\ th' = [th EXCEPT ![t] = [@ EXCEPT !.pc = "pu_swing"]]
  /\ UNCHANGED <<cfg, seg, live, freed, qhead, qtail, HP, Retired, prog, hist, uaf>>

\* tail.compare_exchange_strong(ltail, newTail) after a successful link
Push_SwingTail(t) ==
  /\ th[t].pc = "pu_swing"
  /\ qtail' = IF qtail = th[t].lseg THEN th[t].newTail ELSE qtail
  /\ th' = [th EXCEPT ![t] =
              [@ EXCEPT !.chk = IF cfg.adapter = "bitem" THEN FALSE ELSE @,
                        !.pc = IF cfg.adapter = "bseg" THEN "pu_segincr" ELSE "pu_okclr"]]
  /\ UNCHANGED <<cfg, seg, live, freed, qhead, HP, Retired, ctr, prog, hist, uaf>>

\* bounded-segment adapter: segmentTailIdx.fetch_add(1)
Push_CountSegment(t) ==
  /\ th[t].pc = "pu_segincr"
  /\ ctr' = [ctr EXCEPT !.segmentTailIdx = (@ + 1) % Two64]
  /\ th' = [th EXCEPT ![t] = [@ EXCEPT !.chk = FALSE, !.pc = "pu_okclr"]]
  /\ UNCHANGED <<cfg, seg, live, freed, qhead, qtail, HP, Retired, prog, hist, uaf>>

\* HP.clear(kHpTail, tid); return true (void for the linked adapter)
Push_ReturnTrue(t) ==
  /\ th[t].pc = "pu_okclr"
  /\ HP' = [HP EXCEPT ![t][kHpTail] = NULL]
  /\ Finish(t, th[t], 1)
  /\ UNCHANGED <<cfg, seg, live, freed, qhead, qtail, Retired, ctr, prog, uaf>>

\* HP.clear(kHpTail, tid); return false
Push_ReturnFalse(t) ==
  /\ th[t].pc = "pu_failclr"
  /\ HP' = [HP EXCEPT ![t][kHpTail] = NULL]
  /\ Finish(t, th[t], 0)
  /\ UNCHANGED <<cfg, seg, live, freed, qhead, qtail, Retired, ctr, prog, uaf>>

\* ----------------------------------------------------- hazard pointers
\* the k-th Hazard slot read by the scan of retire: tid ascending, iHP descending
ScanTid(k) == (k + 1) \div 2
ScanHP(k) == (maxHPs - 1) - ((k - 1) % 2)
ScanEnd == 2 * Cardinality(Threads)

\* Hazard[tid][iHP].load() == obj
Protects_nothing(tid, iHP, obj) == FALSE
Protects_all(tid, iHP, obj) == TRUE
Protects(tid, iHP, obj) == HP[tid][iHP] = obj

RemoveAt(list, i) == SubSeq(list, 1, i - 1) \o SubSeq(list, i + 1, Len(list))

\* the loop of retire up to its next read of another thread's Hazard slot:
\* the slots of the retiring thread itself are read without a step
RECURSIVE RetireRun(_, _, _, _, _)
RetireRun(t, list, i, k, del) ==
  IF i > Len(list) THEN [list |-> list, i |-> i, k |-> 0, del |-> del, done |-> TRUE]
  ELSE IF k > ScanEnd THEN RetireRun(t, RemoveAt(list, i), i, 1, del \cup {list[i]})
  ELSE IF ScanTid(k) = t
       THEN (IF \E h \in 0..(maxHPs - 1) : Protects(t, h, list[i])
             THEN RetireRun(t, list, i + 1, 1, del)
             ELSE RetireRun(t, list, i, k + maxHPs, del))
  ELSE [list |-> list, i |-> i, k |-> k, del |-> del, done |-> FALSE]

\* the effect of a stretch of retire on the retired list, the heap and the thread
RetireStep(t, rec, run) ==
  /\ Retired' = [Retired EXCEPT ![t] = run.list]
  /\ live' = live \ run.del
  /\ freed' = freed \cup run.del
  /\ th' = [th EXCEPT ![t] =
              IF run.done THEN [rec EXCEPT !.ri = 0, !.rt = 0, !.pc = "po_prot2"]
              ELSE [rec EXCEPT !.ri = run.i, !.rt = run.k, !.pc = "rt_scan"]]

\* HP.retire(ptr, tid): push_back and the start of the scan
retire(t, rec, ptr) == RetireStep(t, rec, RetireRun(t, Append(Retired[t], ptr), 1, 1, {}))

\* one Hazard[tid][iHP].load() of the scan
Retire_Scan(t) ==
  /\ th[t].pc = "rt_scan"
  /\ LET i == th[t].ri
         k == th[t].rt
         found == Protects(ScanTid(k), ScanHP(k), Retired[t][i]) IN
     RetireStep(t, th[t], IF found THEN RetireRun(t, Retired[t], i + 1, 1, {})
                          ELSE RetireRun(t, Retired[t], i, k + 1, {}))
  /\ UNCHANGED <<cfg, seg, qhead, qtail, HP, ctr, prog, hist, uaf>>

\* ----------------------------------------------------- adapters: pop
\* head.load() handed to HP.protect
Pop_LoadHead(t) ==
  /\ th[t].pc = "po_load"
  /\ th' = [th EXCEPT ![t] = [@ EXCEPT !.lseg = qhead, !.pc = "po_prot"]]
  /\ UNCHANGED <<cfg, seg, live, freed, qhead, qtail, HP, Retired, ctr, prog, hist, uaf>>

\* HP.protect(kHpHead, ptr, tid): the store into the hazard slot
Pop_Protect(t) ==
  /\ th[t].pc = "po_prot"
  /\ HP' = [HP EXCEPT ![t][kHpHead] = th[t].lseg]
  /\ th' = [th EXCEPT ![t] = [@ EXCEPT !.pc = "po_val"]]
  /\ UNCHANGED <<cfg, seg, live, freed, qhead, qtail, Retired, ctr, prog, hist, uaf>>

\* lhead2 = head.load(); if (lhead2 != lhead) protect it and start over
Pop_Validate(t) ==
  /\ th[t].pc = "po_val"
  /\ th' = [th EXCEPT ![t] =
              IF qhead # th[t].lseg THEN [@ EXCEPT !.lseg = qhead, !.pc = "po_prot"]
              ELSE CallPop(th[t], th[t].lseg, "pop1")]
  /\ UNCHANGED <<cfg, seg, live, freed, qhead, qtail, HP, Retired, ctr, prog, hist, uaf>>

Pop_LoadNext_skip(t) ==
  /\ th[t].pc = "po_next"
  /\ Touch(th[t].lseg)
  /\ LET nx == seg[th[t].lseg].next
         rec == [th[t] EXCEPT !.lnext = nx] IN
     th' = [th EXCEPT ![t] =
              IF nx = NULL THEN [rec EXCEPT !.res = NULL, !.pc = "po_clr"]
              ELSE [rec EXCEPT !.pc = "po_cas"]]
  /\ UNCHANGED <<cfg, seg, live, freed, qhead, qtail, HP, Retired, ctr, prog, hist>>

\* lnext = lhead->next.load() after an empty pop
Pop_LoadNext(t) ==
  /\ th[t].pc = "po_next"
  /\ Touch(th[t].lseg)
  /\ LET nx == seg[th[t].lseg].next
         rec == [th[t] EXCEPT !.lnext = nx] IN
     th' = [th EXCEPT ![t] =
              IF nx = NULL THEN [rec EXCEPT !.res = NULL, !.pc = "po_clr"]
              ELSE CallPop(rec, rec.lseg, "pop2")]
  /\ UNCHANGED <<cfg, seg, live, freed, qhead, qtail, HP, Retired, ctr, prog, hist>>

\* head.compare_exchange_strong(lhead, lnext); on success HP.retire(lhead, tid)
\* (the bounded-segment adapter counts the segment first)
Pop_AdvanceHead(t) ==
  /\ th[t].pc = "po_cas"
  /\ IF qhead = th[t].lseg
     THEN /\ qhead' = th[t].lnext
          /\ IF cfg.adapter = "bseg"
             THEN /\ th' = [th EXCEPT ![t] = [@ EXCEPT !.pc = "po_hinc"]]
                  /\ UNCHANGED <<Retired, live, freed>>
             ELSE retire(t, th[t], th[t].lseg)
     ELSE /\ qhead' = qhead
          /\ th' = [th EXCEPT ![t] = [@ EXCEPT !.lseg = qhead, !.pc = "po_prot"]]
          /\ UNCHANGED <<Retired, live, freed>>
  /\ UNCHANGED <<cfg, seg, qtail, HP, ctr, prog, hist, uaf>>

\* bounded-segment adapter: segmentHeadIdx.fetch_add(1), then HP.retire(lhead, tid)
Pop_CountSegment(t) ==
  /\ th[t].pc = "po_hinc"
  /\ ctr' = [ctr EXCEPT !.segmentHeadIdx = (@ + 1) % Two64]
  /\ retire(t, th[t], th[t].lseg)
  /\ UNCHANGED <<cfg, seg, qhead, qtail, HP, prog, hist, uaf>>

\* lhead = HP.protect(kHpHead, lnext, tid) after the retire
Pop_ProtectNext(t) ==
  /\ th[t].pc = "po_prot2"
  /\ HP' = [HP EXCEPT ![t][kHpHead] = th[t].lnext]
  /\ th' = [th EXCEPT ![t] = [@ EXCEPT !.lseg = th[t].lnext, !.pc = "po_val"]]
  /\ UNCHANGED <<cfg, seg, live, freed, qhead, qtail, Retired, ctr, prog, hist, uaf>>

\* HP.clear(kHpHead, tid); return item (the bounded-item adapter counts it first)
Pop_Return(t) ==
  /\ th[t].pc = "po_clr"
  /\ HP' = [HP EXCEPT ![t][kHpHead] = NULL]
  /\ IF cfg.adapter = "bitem" /\ th[t].res # NULL
     THEN /\ th' = [th EXCEPT ![t] = [@ EXCEPT !.pc = "po_pinc"]]
          /\ hist' = hist
     ELSE Finish(t, th[t], th[t].res)
  /\ UNCHANGED <<cfg, seg, live, freed, qhead, qtail, Retired, ctr, prog, uaf>>

\* bounded-item adapter: itemsPopped.fetch_add(1); return item
Pop_CountItem(t) ==
  /\ th[t].pc = "po_pinc"
  /\ ctr' = [ctr EXCEPT !.itemsPopped = (@ + 1) % Two64]
  /\ Finish(t, th[t], th[t].res)
  /\ UNCHANGED <<cfg, seg, live, freed, qhead, qtail, HP, Retired, prog, uaf>>

\* ------------------------------------------------- segment base (shared)
Cell(s, ticket) == seg[s].cell[Remap(N, ticket % N)]
SetCell(s, ticket, c) == seg' = [seg EXCEPT ![s].cell[Remap(N, ticket % N)] = c]
Bump(r) == IF r > SpinLimit THEN r ELSE r + 1
\* the history after the pop holding head ticket h has moved the empty cell at
\* position p of segment s to the next epoch: given keeps, for each cell, the
\* highest such ticket
GiveUp(s, p, h) ==
  LET old == {g \in hist.given : g[1] = s /\ g[2] = seg[s].start /\ g[3] = p}
      top == IF \E g \in old : g[4] > h THEN old ELSE {<<s, seg[s].start, p, h>>} IN
  [hist EXCEPT !.given = (@ \ old) \cup top]

\* closeSegment(tailticket, force)
closeSegment(s, tailticket, force) ==
  IF force \/ (seg[s].tail = tailticket + 1 /\ ~seg[s].closed)
  THEN [seg EXCEPT ![s].closed = TRUE]
  ELSE seg
closeSucceeds(s, tailticket, force) ==
  force \/ (seg[s].tail = tailticket + 1 /\ ~seg[s].closed)

\* fixState(): t = tail.load(); h = head.load(); is h > t with the raw tail?
Seg_FixRead(t) ==
  /\ th[t].pc = "fix_read"
  /\ Touch(th[t].sg)
  /\ LET s == th[t].sg IN
     IF ~seg[s].closed /\ seg[s].head > seg[s].tail
     THEN /\ th' = [th EXCEPT ![t] = [@ EXCEPT !.ttIdx = seg[s].tail, !.a = seg[s].head,
                                               !.pc = "fix_cas"]]
          /\ hist' = hist
     ELSE PopResult(t, th[t], NULL)
  /\ UNCHANGED <<cfg, seg, live, freed, qhead, qtail, HP, Retired, ctr, prog>>

\* a fixState that returns without moving tail up to head
Seg_FixCAS_skip(t) ==
  /\ th[t].pc = "fix_cas"
  /\ Touch(th[t].sg)
  /\ seg' = seg
  /\ PopResult(t, th[t], NULL)
  /\ UNCHANGED <<cfg, live, freed, qhead, qtail, HP, Retired, ctr, prog>>

\* fixState(): tail.compare_exchange_strong(tmp, h)
Seg_FixCAS(t) ==
  /\ th[t].pc = "fix_cas"
  /\ Touch(th[t].sg)
  /\ LET s == th[t].sg IN
     IF ~seg[s].closed /\ seg[s].tail = th[t].ttIdx
     THEN /\ seg' = [seg EXCEPT ![s].tail = th[t].a]
          /\ PopResult(t, th[t], NULL)
     ELSE /\ seg' = seg
          /\ th' = [th EXCEPT ![t] = [Forget(@) EXCEPT !.pc = "fix_read"]]
          /\ hist' = hist
  /\ UNCHANGED <<cfg, live, freed, qhead, qtail, HP, Retired, ctr, prog>>

\* ------------------------------------------------------ CRQueue (Variant-C)
\* tailticket = tail.fetch_add(1); if (isClosed(tailticket)) return false
CRQ_PushTicket(t) ==
  /\ th[t].pc = "c_push"
  /\ seg[th[t].sg].tail - seg[th[t].sg].start < N + cfg.tickets
  /\ Touch(th[t].sg)
  /\ LET s == th[t].sg IN
     /\ seg' = [seg EXCEPT ![s].tail = @ + 1]
     /\ IF isClosed(s) THEN PushResult(t, th[t], 0)
        ELSE /\ th' = [th EXCEPT ![t] = [@ EXCEPT !.tkt = seg[s].tail, !.pc = "c_pu_read"]]
             /\ hist' = hist
  /\ UNCHANGED <<cfg, live, freed, qhead, qtail, HP, Retired, ctr, prog>>

\* idx = cell.idx.load(); cell.val.load() == nullptr; node_index(idx) <= tailticket
CRQ_PushRead(t) ==
  /\ th[t].pc = "c_pu_read"
  /\ Touch(th[t].sg)
  /\ LET c == Cell(th[t].sg, th[t].tkt)
         rec == [th[t] EXCEPT !.cidx = c.idx, !.cuns = c.unsafe, !.cval = c.val] IN
     th' = [th EXCEPT ![t] =
              IF c.val = NULL /\ c.idx <= rec.tkt
              THEN [rec EXCEPT !.pc = IF c.unsafe THEN "c_pu_head" ELSE "c_pu_cas"]
              ELSE [Forget(rec) EXCEPT !.pc = "c_pu_full"]]
  /\ UNCHANGED <<cfg, seg, live, freed, qhead, qtail, HP, Retired, ctr, prog, hist>>

\* the guard of an unsafe cell: head.load() < tailticket
CRQ_PushGuard(h, tailticket) == h < tailticket

CRQ_PushHead(t) ==
  /\ th[t].pc = "c_pu_head"
  /\ Touch(th[t].sg)
  /\ th' = [th EXCEPT ![t] =
              IF CRQ_PushGuard(seg[th[t].sg].head, th[t].tkt)
              THEN [@ EXCEPT !.pc = "c_pu_cas"] ELSE [Forget(@) EXCEPT !.pc = "c_pu_full"]]
  /\ UNCHANGED <<cfg, seg, live, freed, qhead, qtail, HP, Retired, ctr, prog, hist>>

\* CAS2(&cell, nullptr, idx, item, tailticket)
CRQ_PushCAS(t) ==
  /\ th[t].pc = "c_pu_cas"
  /\ Touch(th[t].sg)
  /\ LET c == Cell(th[t].sg, th[t].tkt) IN
     IF c.val = NULL /\ c.idx = th[t].cidx /\ c.unsafe = th[t].cuns
     THEN /\ SetCell(th[t].sg, th[t].tkt, [val |-> PushArg(th[t]), idx |-> th[t].tkt, unsafe |-> FALSE])
          /\ PushResult(t, th[t], 1)
     ELSE /\ seg' = seg
          /\ th' = [th EXCEPT ![t] = [Forget(@) EXCEPT !.pc = "c_pu_full"]]
          /\ hist' = hist
  /\ UNCHANGED <<cfg, live, freed, qhead, qtail, HP, Retired, ctr, prog>>

\* if (tailticket >= head.load() + sizeRing) ... ++try_close
CRQ_PushFull(t) ==
  /\ th[t].pc = "c_pu_full"
  /\ Touch(th[t].sg)
  /\ th' = [th EXCEPT ![t] =
              IF th[t].tkt >= seg[th[t].sg].head + N
              THEN [@ EXCEPT !.tryc = @ + 1, !.pc = "c_pu_close"]
              ELSE [Fresh(@) EXCEPT !.pc = "c_push"]]
  /\ UNCHANGED <<cfg, seg, live, freed, qhead, qtail, HP, Retired, ctr, prog, hist>>

\* closeSegment(tailticket, try_close > TRY_CLOSE_CRQ)
CRQ_PushClose(t) ==
  /\ th[t].pc = "c_pu_close"
  /\ Touch(th[t].sg)
  /\ LET force == th[t].tryc > TRY_CLOSE_CRQ IN
     /\ seg' = closeSegment(th[t].sg, th[t].tkt, force)
     /\ IF closeSucceeds(th[t].sg, th[t].tkt, force) THEN PushResult(t, th[t], 0)
        ELSE /\ th' = [th EXCEPT ![t] = [Fresh(@) EXCEPT !.fails = @ + 1, !.pc = "c_push"]]
             /\ hist' = hist
  /\ UNCHANGED <<cfg, live, freed, qhead, qtail, HP, Retired, ctr, prog>>

\* headticket = head.fetch_add(1); r = 0; tt = 0
CRQ_PopTicket(t) ==
  /\ th[t].pc = "c_pop"
  /\ seg[th[t].sg].head - seg[th[t].sg].start < N + cfg.tickets
  /\ Touch(th[t].sg)
  /\ LET s == th[t].sg IN
     /\ seg' = [seg EXCEPT ![s].head = @ + 1]
     /\ th' = [th EXCEPT ![t] = [@ EXCEPT !.tkt = seg[s].head, !.r = 0, !.ttIdx = 0,
                                           !.ttClosed = FALSE, !.pc = "c_po_read"]]
  /\ UNCHANGED <<cfg, live, freed, qhead, qtail, HP, Retired, ctr, prog, hist>>

\* the test that lets pop give up on an empty cell
CRQ_PopGiveUp(unsafe, tIdx, tClosed, headticket, r) ==
  unsafe \/ tIdx < headticket + 1 \/ tClosed \/ r > SpinLimit

\* cell_idx = cell.idx.load(); val = cell.val.load(); on an empty cell also
\* tt = tail.load() every RefreshPeriod rounds
CRQ_PopRead(t) ==
  /\ th[t].pc = "c_po_read"
  /\ Touch(th[t].sg)
  /\ LET s == th[t].sg
         c == Cell(s, th[t].tkt)
         fresh == th[t].r % RefreshPeriod = 0
         ti == IF fresh THEN seg[s].tail ELSE th[t].ttIdx
         tc == IF fresh THEN seg[s].closed ELSE th[t].ttClosed
         rec == [th[t] EXCEPT !.cidx = c.idx, !.cuns = c.unsafe, !.cval = c.val] IN
     th' = [th EXCEPT ![t] =
              IF c.idx > rec.tkt THEN [Forget(rec) EXCEPT !.pc = "c_po_tail"]
              ELSE IF c.val # NULL THEN [rec EXCEPT !.pc = "c_po_cas"]
              ELSE IF CRQ_PopGiveUp(c.unsafe, ti, tc, rec.tkt, rec.r)
                   THEN [rec EXCEPT !.ttIdx = ti, !.ttClosed = tc, !.pc = "c_po_cas"]
                   ELSE [rec EXCEPT !.ttIdx = ti, !.ttClosed = tc, !.r = Bump(@)]]
  /\ UNCHANGED <<cfg, seg, live, freed, qhead, qtail, HP, Retired, ctr, prog, hist>>

\* headticket + sizeRing, the index pop leaves in the cell of its ticket
NextEpoch_zero(headticket) == 0
NextEpoch_next(headticket) == headticket + 1
\* an empty transition that leaves the cell in the epoch of the ticket
NextEpoch_same(headticket) == headticket
NextEpoch(headticket) == headticket + N

\* the CAS2 of pop: dequeue transition, unsafe transition or empty transition
CRQ_PopCAS(t) ==
  /\ th[t].pc = "c_po_cas"
  /\ Touch(th[t].sg)
  /\ LET s == th[t].sg
         h == th[t].tkt
         c == Cell(s, h)
         same == c.val = th[t].cval /\ c.idx = th[t].cidx /\ c.unsafe = th[t].cuns IN
     IF th[t].cval # NULL /\ th[t].cidx = h
     THEN IF same
          THEN /\ SetCell(s, h, [val |-> NULL, idx |-> NextEpoch(h), unsafe |-> c.unsafe])
               /\ PopResult(t, th[t], c.val)
          ELSE /\ seg' = seg
               /\ th' = [th EXCEPT ![t] = [@ EXCEPT !.pc = "c_po_read"]]
               /\ hist' = hist
     ELSE IF th[t].cval # NULL
     THEN /\ seg' = IF same THEN [seg EXCEPT ![s].cell[Remap(N, h % N)].unsafe = TRUE] ELSE seg
          /\ th' = [th EXCEPT ![t] = IF same THEN [Forget(@) EXCEPT !.pc = "c_po_tail"]
                                     ELSE [@ EXCEPT !.pc = "c_po_read"]]
          /\ hist' = hist
     ELSE /\ seg' = IF same THEN [seg EXCEPT ![s].cell[Remap(N, h % N)].idx = NextEpoch(h)]
                    ELSE seg
          /\ th' = [th EXCEPT ![t] = IF same THEN [Forget(@) EXCEPT !.pc = "c_po_tail"]
                                     ELSE [@ EXCEPT !.r = Bump(@), !.pc = "c_po_read"]]
          /\ hist' = IF same THEN GiveUp(s, Remap(N, h % N), h) ELSE hist
  /\ UNCHANGED <<cfg, live, freed, qhead, qtail, HP, Retired, ctr, prog>>

\* if (tailIndex(tail.load()) <= headticket + 1) { fixState(); return nullptr; }
Seg_PopTail(t) ==
  /\ th[t].pc \in {"c_po_tail", "p_po_tail"}
  /\ Touch(th[t].sg)
  /\ th' = [th EXCEPT ![t] =
              IF tailIndex(th[t].sg) <= th[t].tkt + 1 THEN [Forget(@) EXCEPT !.pc = "fix_read"]
              ELSE [Fresh(@) EXCEPT !.pc = IF th[t].pc = "c_po_tail" THEN "c_pop" ELSE "p_pop"]]
  /\ UNCHANGED <<cfg, seg, live, freed, qhead, qtail, HP, Retired, ctr, prog, hist>>

\* ------------------------------------------------------ PRQueue (Variant-P)
PCell(s, ticket) == seg[s].cell[ticket % N]
SetPCell(s, ticket, c) == seg' = [seg EXCEPT ![s].cell[ticket % N] = c]

\* tailticket = tail.fetch_add(1); if (isClosed(tailticket)) return false
PRQ_PushTicket(t) ==
  /\ th[t].pc = "p_push"
  /\ seg[th[t].sg].tail - seg[th[t].sg].start < N + cfg.tickets
  /\ Touch(th[t].sg)
  /\ LET s == th[t].sg IN
     /\ seg' = [seg EXCEPT ![s].tail = @ + 1]
     /\ IF isClosed(s) THEN PushResult(t, th[t], 0)
        ELSE /\ th' = [th EXCEPT ![t] = [@ EXCEPT !.tkt = seg[s].tail, !.pc = "p_pu_idx"]]
             /\ hist' = hist
  /\ UNCHANGED <<cfg, live, freed, qhead, qtail, HP, Retired, ctr, prog>>

\* idx = cell.idx.load()
PRQ_PushReadIdx(t) ==
  /\ th[t].pc = "p_pu_idx"
  /\ Touch(th[t].sg)
  /\ LET c == PCell(th[t].sg, th[t].tkt) IN
     th' = [th EXCEPT ![t] = [@ EXCEPT !.cidx = c.idx, !.cuns = c.unsafe, !.pc = "p_pu_val"]]
  /\ UNCHANGED <<cfg, seg, live, freed, qhead, qtail, HP, Retired, ctr, prog, hist>>

\* val = cell.val.load(); val == nullptr; nodeIndex(idx) <= tailticket
PRQ_PushReadVal(t) ==
  /\ th[t].pc = "p_pu_val"
  /\ Touch(th[t].sg)
  /\ LET c == PCell(th[t].sg, th[t].tkt) IN
     th' = [th EXCEPT ![t] =
              IF c.val = NULL /\ th[t].cidx <= th[t].tkt
              THEN [@ EXCEPT !.pc = IF th[t].cuns THEN "p_pu_head" ELSE "p_pu_cas1"]
              ELSE [Forget(@) EXCEPT !.pc = "p_pu_full"]]
  /\ UNCHANGED <<cfg, seg, live, freed, qhead, qtail, HP, Retired, ctr, prog, hist>>

\* the guard of an unsafe cell: head.load() <= tailticket
PRQ_PushGuard(h, tailticket) == h <= tailticket

PRQ_PushHead(t) ==
  /\ th[t].pc = "p_pu_head"
  /\ Touch(th[t].sg)
  /\ th' = [th EXCEPT ![t] =
              IF PRQ_PushGuard(seg[th[t].sg].head, th[t].tkt)
              THEN [@ EXCEPT !.pc = "p_pu_cas1"] ELSE [Forget(@) EXCEPT !.pc = "p_pu_full"]]
  /\ UNCHANGED <<cfg, seg, live, freed, qhead, qtail, HP, Retired, ctr, prog, hist>>

\* cell.val.compare_exchange_strong(val, bottom)
PRQ_PushReserve(t) ==
  /\ th[t].pc = "p_pu_cas1"
  /\ Touch(th[t].sg)
  /\ LET c == PCell(th[t].sg, th[t].tkt) IN
     IF c.val = NULL
     THEN /\ SetPCell(th[t].sg, th[t].tkt, [c EXCEPT !.val = threadLocalBottom(t)])
          /\ th' = [th EXCEPT ![t] = [@ EXCEPT !.pc = "p_pu_cas2"]]
     ELSE /\ seg' = seg
          /\ th' = [th EXCEPT ![t] = [Forget(@) EXCEPT !.pc = "p_pu_full"]]
  /\ UNCHANGED <<cfg, live, freed, qhead, qtail, HP, Retired, ctr, prog, hist>>

\* cell.idx.compare_exchange_strong(idx, tailticket + size)
PRQ_PushEpoch(t) ==
  /\ th[t].pc = "p_pu_cas2"
  /\ Touch(th[t].sg)
  /\ LET c == PCell(th[t].sg, th[t].tkt) IN
     IF c.idx = th[t].cidx /\ c.unsafe = th[t].cuns
     THEN /\ SetPCell(th[t].sg, th[t].tkt, [c EXCEPT !.idx = th[t].tkt + N, !.unsafe = FALSE])
          /\ th' = [th EXCEPT ![t] = [Forget(@) EXCEPT !.pc = "p_pu_cas3"]]
     ELSE /\ seg' = seg
          /\ th' = [th EXCEPT ![t] = [Forget(@) EXCEPT !.pc = "p_pu_undo"]]
  /\ UNCHANGED <<cfg, live, freed, qhead, qtail, HP, Retired, ctr, prog, hist>>

\* step (c) as a plain store of the item, whatever the cell holds
PRQ_PushCommit_store(t) ==
  /\ th[t].pc = "p_pu_cas3"
  /\ Touch(th[t].sg)
  /\ SetPCell(th[t].sg, th[t].tkt,
              [PCell(th[t].sg, th[t].tkt) EXCEPT !.val = PushArg(th[t])])
  /\ PushResult(t, th[t], 1)
  /\ UNCHANGED <<cfg, live, freed, qhead, qtail, HP, Retired, ctr, prog>>

\* cell.val.compare_exchange_strong(bottom, item)
PRQ_PushCommit(t) ==
  /\ th[t].pc = "p_pu_cas3"
  /\ Touch(th[t].sg)
  /\ LET c == PCell(th[t].sg, th[t].tkt) IN
     IF c.val = threadLocalBottom(t)
     THEN /\ SetPCell(th[t].sg, th[t].tkt, [c EXCEPT !.val = PushArg(th[t])])
          /\ PushResult(t, th[t], 1)
     ELSE /\ seg' = seg
          /\ th' = [th EXCEPT ![t] = [Forget(@) EXCEPT !.pc = "p_pu_full"]]
          /\ hist' = [hist EXCEPT !.dropped = TRUE]
  /\ UNCHANGED <<cfg, live, freed, qhead, qtail, HP, Retired, ctr, prog>>

\* a push that goes on after the failed idx CAS without taking its marker back
PRQ_PushUndo_keep(t) ==
  /\ th[t].pc = "p_pu_undo"
  /\ Touch(th[t].sg)
  /\ th' = [th EXCEPT ![t] = [Forget(@) EXCEPT !.pc = "p_pu_full"]]
  /\ hist' = [hist EXCEPT !.dropped = TRUE]
  /\ UNCHANGED <<cfg, live, freed, qhead, qtail, HP, Retired, ctr, prog, seg>>

\* cell.val.compare_exchange_strong(bottom, nullptr) after the failed idx CAS
PRQ_PushUndo(t) ==
  /\ th[t].pc = "p_pu_undo"
  /\ Touch(th[t].sg)
  /\ LET c == PCell(th[t].sg, th[t].tkt) IN
     seg' = IF c.val = threadLocalBottom(t)
            THEN [seg EXCEPT ![th[t].sg].cell[th[t].tkt % N].val = NULL] ELSE seg
  /\ th' = [th EXCEPT ![t] = [Forget(@) EXCEPT !.pc = "p_pu_full"]]
  /\ hist' = [hist EXCEPT !.dropped = TRUE]
  /\ UNCHANGED <<cfg, live, freed, qhead, qtail, HP, Retired, ctr, prog>>

\* if (tailticket >= head.load() + size): try_close is not incremented here
PRQ_PushFull(t) ==
  /\ th[t].pc = "p_pu_full"
  /\ Touch(th[t].sg)
  /\ th' = [th EXCEPT ![t] =
              IF th[t].tkt >= seg[th[t].sg].head + N
              THEN [@ EXCEPT !.pc = "p_pu_close"] ELSE [Fresh(@) EXCEPT !.pc = "p_push"]]
  /\ UNCHANGED <<cfg, seg, live, freed, qhead, qtail, HP, Retired, ctr, prog, hist>>

\* closeSegment(tailticket, try_close > TRY_CLOSE_PRQ)
PRQ_PushClose(t) ==
  /\ th[t].pc = "p_pu_close"
  /\ Touch(th[t].sg)
  /\ LET force == th[t].tryc > TRY_CLOSE_PRQ IN
     /\ seg' = closeSegment(th[t].sg, th[t].tkt, force)
     /\ IF closeSucceeds(th[t].sg, th[t].tkt, force) THEN PushResult(t, th[t], 0)
        ELSE /\ th' = [th EXCEPT ![t] = [Fresh(@) EXCEPT !.fails = @ + 1, !.pc = "p_push"]]
             /\ hist' = hist
  /\ UNCHANGED <<cfg, live, freed, qhead, qtail, HP, Retired, ctr, prog>>

\* headticket = head.fetch_add(1); r = 0; tt = 0
PRQ_PopTicket(t) ==
  /\ th[t].pc = "p_pop"
  /\ seg[th[t].sg].head - seg[th[t].sg].start < N + cfg.tickets
  /\ Touch(th[t].sg)
  /\ LET s == th[t].sg IN
     /\ seg' = [seg EXCEPT ![s].head = @ + 1]
     /\ th' = [th EXCEPT ![t] = [@ EXCEPT !.tkt = seg[s].head, !.r = 0, !.ttIdx = 0,
                                           !.ttClosed = FALSE, !.pc = "p_po_idx"]]
  /\ UNCHANGED <<cfg, live, freed, qhead, qtail, HP, Retired, ctr, prog, hist>>

\* cell_idx = cell.idx.load()
PRQ_PopReadIdx(t) ==
  /\ th[t].pc = "p_po_idx"
  /\ Touch(th[t].sg)
  /\ LET c == PCell(th[t].sg, th[t].tkt) IN
     th' = [th EXCEPT ![t] = [@ EXCEPT !.cidx = c.idx, !.cuns = c.unsafe, !.pc = "p_po_val"]]
  /\ UNCHANGED <<cfg, seg, live, freed, qhead, qtail, HP, Retired, ctr, prog, hist>>

\* the test that lets pop give up on an empty or reserved cell
PRQ_PopGiveUp(unsafe, tIdx, tClosed, headticket, r) ==
  unsafe \/ tIdx < headticket + 1 \/ tClosed \/ r > SpinLimit

\* where pop goes once it holds idx, val and tt
PRQ_PopEmptyCell(rec) ==
  IF PRQ_PopGiveUp(rec.cuns, rec.ttIdx, rec.ttClosed, rec.tkt, rec.r)
  THEN IF isBottom(rec.cval) THEN [rec EXCEPT !.pc = "p_po_clrb"]
       ELSE [rec EXCEPT !.cval = 0, !.pc = "p_po_adv"]
  ELSE Respin([rec EXCEPT !.r = Bump(@), !.pc = "p_po_idx"])

\* val = cell.val.load() and the branch on idx and val
PRQ_PopReadVal(t) ==
  /\ th[t].pc = "p_po_val"
  /\ Touch(th[t].sg)
  /\ LET v == PCell(th[t].sg, th[t].tkt).val
         rec == [th[t] EXCEPT !.cval = v] IN
     th' = [th EXCEPT ![t] =
              IF rec.cidx > rec.tkt + N THEN [Forget(rec) EXCEPT !.pc = "p_po_tail"]
              ELSE IF v # NULL /\ ~isBottom(v)
                   THEN IF rec.cidx = rec.tkt + N
                        THEN [Forget(rec) EXCEPT !.cval = v, !.pc = "p_po_store"]
                        ELSE [rec EXCEPT !.cval = 0,
                                         !.pc = IF rec.cuns THEN "p_po_reidx" ELSE "p_po_mark"]
              ELSE IF rec.r % RefreshPeriod = 0 THEN [rec EXCEPT !.pc = "p_po_tt"]
              ELSE PRQ_PopEmptyCell(rec)]
  /\ UNCHANGED <<cfg, seg, live, freed, qhead, qtail, HP, Retired, ctr, prog, hist>>

\* cell.val.store(nullptr); return val
PRQ_PopStore(t) ==
  /\ th[t].pc = "p_po_store"
  /\ Touch(th[t].sg)
  /\ seg' = [seg EXCEPT ![th[t].sg].cell[th[t].tkt % N].val = NULL]
  /\ PopResult(t, th[t], th[t].cval)
  /\ UNCHANGED <<cfg, live, freed, qhead, qtail, HP, Retired, ctr, prog>>

\* unsafe cell holding another epoch: if (cell.idx.load() == cell_idx) break
PRQ_PopRecheck(t) ==
  /\ th[t].pc = "p_po_reidx"
  /\ Touch(th[t].sg)
  /\ LET c == PCell(th[t].sg, th[t].tkt) IN
     th' = [th EXCEPT ![t] =
              IF c.idx = th[t].cidx /\ c.unsafe = th[t].cuns
              THEN [Forget(@) EXCEPT !.pc = "p_po_tail"] ELSE Respin([@ EXCEPT !.pc = "p_po_idx"])]
  /\ UNCHANGED <<cfg, seg, live, freed, qhead, qtail, HP, Retired, ctr, prog, hist>>

\* cell.idx.compare_exchange_strong(cell_idx, setUnsafe(idx))
PRQ_PopMark(t) ==
  /\ th[t].pc = "p_po_mark"
  /\ Touch(th[t].sg)
  /\ LET c == PCell(th[t].sg, th[t].tkt)
         same == c.idx = th[t].cidx /\ c.unsafe = th[t].cuns IN
     /\ seg' = IF same THEN [seg EXCEPT ![th[t].sg].cell[th[t].tkt % N].unsafe = TRUE] ELSE seg
     /\ th' = [th EXCEPT ![t] = IF same THEN [Forget(@) EXCEPT !.pc = "p_po_tail"]
                                ELSE Respin([@ EXCEPT !.pc = "p_po_idx"])]
  /\ UNCHANGED <<cfg, live, freed, qhead, qtail, HP, Retired, ctr, prog, hist>>

\* tt = tail.load()
PRQ_PopReadTail(t) ==
  /\ th[t].pc = "p_po_tt"
  /\ Touch(th[t].sg)
  /\ th' = [th EXCEPT ![t] =
              PRQ_PopEmptyCell([@ EXCEPT !.ttIdx = seg[th[t].sg].tail,
                                         !.ttClosed = seg[th[t].sg].closed])]
  /\ UNCHANGED <<cfg, seg, live, freed, qhead, qtail, HP, Retired, ctr, prog, hist>>

\* if (isBottom(val) && !cell.val.compare_exchange_strong(val, nullptr)) continue
PRQ_PopClearBottom(t) ==
  /\ th[t].pc = "p_po_clrb"
  /\ Touch(th[t].sg)
  /\ LET c == PCell(th[t].sg, th[t].tkt)
         same == c.val = th[t].cval IN
     /\ seg' = IF same THEN [seg EXCEPT ![th[t].sg].cell[th[t].tkt % N].val = NULL] ELSE seg
     /\ th' = [th EXCEPT ![t] = IF same THEN [@ EXCEPT !.cval = 0, !.pc = "p_po_adv"]
                                ELSE Respin([@ EXCEPT !.pc = "p_po_idx"])]
  /\ UNCHANGED <<cfg, live, freed, qhead, qtail, HP, Retired, ctr, prog, hist>>

\* cell.idx.compare_exchange_strong(cell_idx, unsafe | (headticket + size))
PRQ_PopAdvance(t) ==
  /\ th[t].pc = "p_po_adv"
  /\ Touch(th[t].sg)
  /\ LET c == PCell(th[t].sg, th[t].tkt)
         same == c.idx = th[t].cidx /\ c.unsafe = th[t].cuns IN
     /\ seg' = IF same THEN [seg EXCEPT ![th[t].sg].cell[th[t].tkt % N].idx = th[t].tkt + N]
               ELSE seg
     /\ th' = [th EXCEPT ![t] = IF same THEN [Forget(@) EXCEPT !.pc = "p_po_tail"]
                                ELSE Respin([@ EXCEPT !.r = Bump(@), !.pc = "p_po_idx"])]
     /\ hist' = IF same THEN GiveUp(th[t].sg, th[t].tkt % N, th[t].tkt) ELSE hist
  /\ UNCHANGED <<cfg, live, freed, qhead, qtail, HP, Retired, ctr, prog>>

\* ------------------------------------------------------ MTQueue (Variant-M)
\* the ring used alone is the bounded instantiation MTQueue<T, padded, true>
MTQ_bounded == cfg.adapter = "bare"

\* tailTicket = tail.load(); unbounded: if (isClosed(tailTicket)) return false
MTQ_PushLoadTail(t) ==
  /\ th[t].pc = "m_push"
  /\ Touch(th[t].sg)
  /\ LET s == th[t].sg IN
     IF ~MTQ_bounded /\ isClosed(s) THEN PushResult(t, th[t], 0)
     ELSE /\ th' = [th EXCEPT ![t] = [@ EXCEPT !.tkt = seg[s].tail, !.pc = "m_pu_idx"]]
          /\ hist' = hist
  /\ UNCHANGED <<cfg, seg, live, freed, qhead, qtail, HP, Retired, ctr, prog>>

\* idx = node->idx.load(); tailTicket == idx, tailTicket > idx or neither
MTQ_PushReadIdx(t) ==
  /\ th[t].pc = "m_pu_idx"
  /\ Touch(th[t].sg)
  /\ LET idx == Cell(th[t].sg, th[t].tkt).idx
         rec == [th[t] EXCEPT !.cidx = idx] IN
     IF rec.tkt = idx
     THEN /\ th' = [th EXCEPT ![t] = [rec EXCEPT !.pc = "m_pu_cas"]]
          /\ hist' = hist
     ELSE IF rec.tkt > idx
     THEN IF MTQ_bounded THEN PushResult(t, rec, 0)
          ELSE /\ th' = [th EXCEPT ![t] = [rec EXCEPT !.tryc = @ + 1, !.pc = "m_pu_close"]]
               /\ hist' = hist
     ELSE /\ th' = [th EXCEPT ![t] = [Fresh(rec) EXCEPT !.pc = "m_push"]]
          /\ hist' = hist
  /\ UNCHANGED <<cfg, seg, live, freed, qhead, qtail, HP, Retired, ctr, prog>>

\* tail.compare_exchange_weak(tailTicket, tailTicket + 1)
MTQ_PushCAS(t) ==
  /\ th[t].pc = "m_pu_cas"
  /\ Touch(th[t].sg)
  /\ LET s == th[t].sg
         ok == seg[s].tail = th[t].tkt /\ ~seg[s].closed IN
     /\ seg' = IF ok THEN [seg EXCEPT ![s].tail = @ + 1] ELSE seg
     /\ th' = [th EXCEPT ![t] = IF ok THEN [@ EXCEPT !.pc = "m_pu_wval"]
                                ELSE [Fresh(@) EXCEPT !.pc = "m_push"]]
  /\ UNCHANGED <<cfg, live, freed, qhead, qtail, HP, Retired, ctr, prog, hist>>

\* closeSegment(tailTicket - 1, ++try_close > TRY_CLOSE_MTQ)
MTQ_PushClose(t) ==
  /\ th[t].pc = "m_pu_close"
  /\ Touch(th[t].sg)
  /\ LET force == th[t].tryc > TRY_CLOSE_MTQ IN
     /\ seg' = closeSegment(th[t].sg, th[t].tkt - 1, force)
     /\ IF closeSucceeds(th[t].sg, th[t].tkt - 1, force) THEN PushResult(t, th[t], 0)
        ELSE /\ th' = [th EXCEPT ![t] = [Fresh(@) EXCEPT !.fails = @ + 1, !.pc = "m_push"]]
             /\ hist' = hist
  /\ UNCHANGED <<cfg, live, freed, qhead, qtail, HP, Retired, ctr, prog>>

\* node->val = item
MTQ_PushWriteVal(t) ==
  /\ th[t].pc = "m_pu_wval"
  /\ Touch(th[t].sg)
  /\ seg' = [seg EXCEPT ![th[t].sg].cell[Remap(N, th[t].tkt % N)].val = PushArg(th[t])]
  /\ th' = [th EXCEPT ![t] = [@ EXCEPT !.pc = "m_pu_widx"]]
  /\ UNCHANGED <<cfg, live, freed, qhead, qtail, HP, Retired, ctr, prog, hist>>

\* node->idx.store(idx + 1); return true
MTQ_PushWriteIdx(t) ==
  /\ th[t].pc = "m_pu_widx"
  /\ Touch(th[t].sg)
  /\ seg' = [seg EXCEPT ![th[t].sg].cell[Remap(N, th[t].tkt % N)].idx = th[t].cidx + 1]
  /\ PushResult(t, th[t], 1)
  /\ UNCHANGED <<cfg, live, freed, qhead, qtail, HP, Retired, ctr, prog>>

\* headTicket = head.load()
MTQ_PopLoadHead(t) ==
  /\ th[t].pc = "m_pop"
  /\ Touch(th[t].sg)
  /\ th' = [th EXCEPT ![t] = [@ EXCEPT !.tkt = seg[th[t].sg].head, !.pc = "m_po_idx"]]
  /\ UNCHANGED <<cfg, seg, live, freed, qhead, qtail, HP, Retired, ctr, prog, hist>>

\* idx = node->idx.load(); diff = idx - (headTicket + 1)
MTQ_PopReadIdx(t) ==
  /\ th[t].pc = "m_po_idx"
  /\ Touch(th[t].sg)
  /\ LET diff == Cell(th[t].sg, th[t].tkt).idx - (th[t].tkt + 1) IN
     th' = [th EXCEPT ![t] =
              IF diff = 0 THEN [@ EXCEPT !.pc = "m_po_cas"]
              ELSE IF diff < 0 THEN [@ EXCEPT !.pc = "m_po_empty"]
              ELSE [Fresh(@) EXCEPT !.pc = "m_pop"]]
  /\ UNCHANGED <<cfg, seg, live, freed, qhead, qtail, HP, Retired, ctr, prog, hist>>

\* isEmpty(): head.load() >= tailIndex(tail.load())
isEmpty(s) == seg[s].head >= seg[s].tail

\* if (isEmpty()) return nullptr
MTQ_PopEmpty(t) ==
  /\ th[t].pc = "m_po_empty"
  /\ Touch(th[t].sg)
  /\ IF isEmpty(th[t].sg) THEN PopResult(t, th[t], NULL)
     ELSE /\ th' = [th EXCEPT ![t] = [Fresh(@) EXCEPT !.pc = "m_pop"]]
          /\ hist' = hist
  /\ UNCHANGED <<cfg, seg, live, freed, qhead, qtail, HP, Retired, ctr, prog>>

\* head.compare_exchange_weak(headTicket, headTicket + 1)
MTQ_PopCAS(t) ==
  /\ th[t].pc = "m_po_cas"
  /\ Touch(th[t].sg)
  /\ LET s == th[t].sg
         ok == seg[s].head = th[t].tkt IN
     /\ seg' = IF ok THEN [seg EXCEPT ![s].head = @ + 1] ELSE seg
     /\ th' = [th EXCEPT ![t] = IF ok THEN [@ EXCEPT !.pc = "m_po_rval"]
                                ELSE [Fresh(@) EXCEPT !.pc = "m_pop"]]
  /\ UNCHANGED <<cfg, live, freed, qhead, qtail, HP, Retired, ctr, prog, hist>>

\* item = node->val
MTQ_PopReadVal(t) ==
  /\ th[t].pc = "m_po_rval"
  /\ Touch(th[t].sg)
  /\ th' = [th EXCEPT ![t] = [@ EXCEPT !.cval = Cell(th[t].sg, th[t].tkt).val,
                                        !.pc = "m_po_widx"]]
  /\ UNCHANGED <<cfg, seg, live, freed, qhead, qtail, HP, Retired, ctr, prog, hist>>

\* node->idx.store(headTicket + sizeRing); return item
MTQ_PopWriteIdx(t) ==
  /\ th[t].pc = "m_po_widx"
  /\ Touch(th[t].sg)
  /\ seg' = [seg EXCEPT ![th[t].sg].cell[Remap(N, th[t].tkt % N)].idx = th[t].tkt + N]
  /\ PopResult(t, th[t], th[t].cval)
  /\ UNCHANGED <<cfg, live, freed, qhead, qtail, HP, Retired, ctr, prog>>

\* ------------------------------------------------------ SPSCQueue
\* The buffer cells are plain void* words read and written by both threads;
\* each access is taken as one indivisible load or store of the word.
\* head + (head + 1 == size ? 1 - size : 1) on uint64_t
SPSC_Next_stay(i, size) == i
SPSC_Next(i, size) == (i + (IF i + 1 = size THEN U64Sub(1, size) ELSE 1)) % Two64

\* the SPSC operation of thread t returns to All2All or to the caller of the ring
SPSC_PushReturn(t, rec, ok) ==
  IF rec.site = "bare" THEN Finish(t, rec, ok)
  ELSE /\ th' = [th EXCEPT ![t] =
                   [Leave(rec) EXCEPT !.pc = IF ok = 1 THEN "a_pu_hit" ELSE "a_pu_miss"]]
       /\ hist' = hist

SPSC_PopReturn(t, rec, item) ==
  IF rec.site = "bare" THEN Finish(t, rec, item)
  ELSE /\ th' = [th EXCEPT ![t] =
                   [Leave(rec) EXCEPT !.res = item,
                                      !.pc = IF item # NULL THEN "a_po_hit" ELSE "a_po_miss"]]
       /\ hist' = hist

\* if(available()): curr_tail = buffer[tail]; otherwise return false
SPSC_PushAvailable(t) ==
  /\ th[t].pc = "s_push"
  /\ LET q == seg[th[t].sg] IN
     IF q.cell[q.tail].val = NULL
     THEN /\ th' = [th EXCEPT ![t] = [@ EXCEPT !.pc = "s_pu_write"]]
          /\ hist' = hist
     ELSE SPSC_PushReturn(t, th[t], 0)
  /\ UNCHANGED <<cfg, seg, live, freed, qhead, qtail, HP, Retired, ctr, prog, uaf>>

\* buffer[tail] = item; release fence
SPSC_PushWrite(t) ==
  /\ th[t].pc = "s_pu_write"
  /\ seg' = [seg EXCEPT ![th[t].sg].cell[seg[th[t].sg].tail].val = PushArg(th[t])]
  /\ th' = [th EXCEPT ![t] = [@ EXCEPT !.pc = "s_pu_tail"]]
  /\ UNCHANGED <<cfg, live, freed, qhead, qtail, HP, Retired, ctr, prog, hist, uaf>>

\* tail = tail + (tail + 1 == size ? 1 - size : 1); return true
SPSC_PushAdvance(t) ==
  /\ th[t].pc = "s_pu_tail"
  /\ seg' = [seg EXCEPT ![th[t].sg].tail = SPSC_Next(@, N)]
  /\ SPSC_PushReturn(t, th[t], 1)
  /\ UNCHANGED <<cfg, live, freed, qhead, qtail, HP, Retired, ctr, prog, uaf>>

\* if(empty()) return nullptr: curr_head = buffer[head]
SPSC_PopEmpty(t) ==
  /\ th[t].pc = "s_pop"
  /\ LET q == seg[th[t].sg] IN
     IF q.cell[q.head].val = NULL
     THEN SPSC_PopReturn(t, th[t], NULL)
     ELSE /\ th' = [th EXCEPT ![t] = [@ EXCEPT !.pc = "s_po_read"]]
          /\ hist' = hist
  /\ UNCHANGED <<cfg, seg, live, freed, qhead, qtail, HP, Retired, ctr, prog, uaf>>

\* item = buffer[head]
SPSC_PopRead(t) ==
  /\ th[t].pc = "s_po_read"
  /\ th' = [th EXCEPT ![t] = [@ EXCEPT !.cval = seg[th[t].sg].cell[seg[th[t].sg].head].val,
                                       !.pc = "s_po_clear"]]
  /\ UNCHANGED <<cfg, seg, live, freed, qhead, qtail, HP, Retired, ctr, prog, hist, uaf>>

\* buffer[head] = nullptr
SPSC_PopClear(t) ==
  /\ th[t].pc = "s_po_clear"
  /\ seg' = [seg EXCEPT ![th[t].sg].cell[seg[th[t].sg].head].val = NULL]
  /\ th' = [th EXCEPT ![t] = [@ EXCEPT !.pc = "s_po_head"]]
  /\ UNCHANGED <<cfg, live, freed, qhead, qtail, HP, Retired, ctr, prog, hist, uaf>>

\* head = head + (head + 1 == size ? 1 - size : 1); return item
SPSC_PopAdvance(t) ==
  /\ th[t].pc = "s_po_head"
  /\ seg' = [seg EXCEPT ![th[t].sg].head = SPSC_Next(@, N)]
  /\ SPSC_PopReturn(t, th[t], th[t].cval)
  /\ UNCHANGED <<cfg, live, freed, qhead, qtail, HP, Retired, ctr, prog, uaf>>

SPSCStep(t) ==
  \/ SPSC_PushAvailable(t) \/ SPSC_PushWrite(t) \/ SPSC_PushAdvance(t)
  \/ SPSC_PopEmpty(t) \/ SPSC_PopRead(t) \/ SPSC_PopClear(t) \/ SPSC_PopAdvance(t)

\* ------------------------------------------------------ All2All
\* queueMatrix[iProducer][jConsumer]: the SPSC queues sit in seg, row by row;
\* ctr holds the thread_local cursors current_consumer and current_producer
queueMatrix_first(i, j) == 1
queueMatrix(i, j) == i * cfg.consumers + j + 1

\* All2All(size, producers_par, consumers_par) throws on a zero argument and on
\* size / (producers * consumers) == 0
A2A_Refuses(size, producers, consumers) ==
  \/ producers = 0 \/ consumers = 0
  \/ size = 0
  \/ size \div (producers * consumers) = 0

\* the state after the constructor of All2All has returned
ConstructMesh(size, producers, consumers, programs) ==
  LET sizeQueue == size \div (producers * consumers) IN
  /\ ~A2A_Refuses(size, producers, consumers)
  /\ cfg = [adapter |-> "mesh", variant |-> "S", pow2 |-> FALSE, N |-> sizeQueue,
            sizeRing |-> sizeQueue, cap |-> size, K |-> 0, size |-> size, tickets |-> 0,
            producers |-> producers, consumers |-> consumers]
  /\ seg = [s \in 1..(producers * consumers) |-> NewSegment(sizeQueue, 0)]
  /\ live = 1..(producers * consumers)
  /\ freed = {}
  /\ qhead = NULL
  /\ qtail = NULL
  /\ HP = [t \in Threads |-> [h \in 0..(maxHPs - 1) |-> NULL]]
  /\ Retired = [t \in Threads |-> <<>>]
  /\ ctr = [t \in Threads |-> [current_consumer |-> 0, current_producer |-> 0]]
  /\ th = [t \in Threads |-> IdleLocals]
  /\ prog = [t \in Threads |-> IF t \in DOMAIN programs THEN programs[t] ELSE <<>>]
  /\ hist = [invoked |-> {}, results |-> [t \in Threads |-> <<>>],
             drained |-> FALSE, overtaken |-> FALSE, falseEmpty |-> FALSE,
             len |-> -1, lenOver |-> FALSE, given |-> {},
             dropped |-> FALSE]
  /\ uaf = FALSE

\* producer = tid % producers, consumer = tid % consumers; thread t has tid t - 1
A2A_producer(t) == (t - 1) % cfg.producers
A2A_consumer(t) == (t - 1) % cfg.consumers

\* push: int i = current_consumer
A2A_PushBegin(t) ==
  /\ th[t].pc = "a_push"
  /\ th' = [th EXCEPT ![t] = [@ EXCEPT !.i = ctr[t].current_consumer, !.lap = 1,
                                       !.pc = "a_pu_loop"]]
  /\ UNCHANGED <<cfg, seg, live, freed, qhead, qtail, HP, Retired, ctr, prog, hist, uaf>>

\* push: the loop tests i < consumers and i < current_consumer, the call
\* queueMatrix[producer][i]->push(item), and return false after the second loop
A2A_PushLoop(t) ==
  /\ th[t].pc = "a_pu_loop"
  /\ LET rec == th[t]
         limit == IF rec.lap = 1 THEN cfg.consumers ELSE ctr[t].current_consumer IN
     IF rec.i < limit
     THEN /\ th' = [th EXCEPT ![t] = CallPush(rec, queueMatrix(A2A_producer(t), rec.i), "mesh")]
          /\ hist' = hist
     ELSE IF rec.lap = 1
     THEN /\ th' = [th EXCEPT ![t] = [rec EXCEPT !.i = 0, !.lap = 2]]
          /\ hist' = hist
     ELSE Finish(t, rec, 0)
  /\ UNCHANGED <<cfg, seg, live, freed, qhead, qtail, HP, Retired, ctr, prog, uaf>>

\* push: the SPSC push returned false, i++
A2A_PushMiss(t) ==
  /\ th[t].pc = "a_pu_miss"
  /\ th' = [th EXCEPT ![t] = [@ EXCEPT !.i = @ + 1, !.pc = "a_pu_loop"]]
  /\ UNCHANGED <<cfg, seg, live, freed, qhead, qtail, HP, Retired, ctr, prog, hist, uaf>>

\* push: current_consumer = ((i + 1) == producers) ? 0 : i in the first loop,
\* current_consumer = i in the second; return true
A2A_PushHit(t) ==
  /\ th[t].pc = "a_pu_hit"
  /\ ctr' = [ctr EXCEPT ![t].current_consumer =
               IF th[t].lap = 1 THEN (IF th[t].i + 1 = cfg.producers THEN 0 ELSE th[t].i)
               ELSE th[t].i]
  /\ Finish(t, th[t], 1)
  /\ UNCHANGED <<cfg, seg, live, freed, qhead, qtail, HP, Retired, prog, uaf>>

\* pop: int i = current_producer
A2A_PopBegin(t) ==
  /\ th[t].pc = "a_pop"
  /\ th' = [th EXCEPT ![t] = [@ EXCEPT !.i = ctr[t].current_producer, !.lap = 1,
                                       !.pc = "a_po_loop"]]
  /\ UNCHANGED <<cfg, seg, live, freed, qhead, qtail, HP, Retired, ctr, prog, hist, uaf>>

\* pop: the loop tests i < producers and i < current_producer, the call
\* queueMatrix[i][consumer]->pop(), and return item (nullptr) after the second loop
A2A_PopLoop(t) ==
  /\ th[t].pc = "a_po_loop"
  /\ LET rec == th[t]
         limit == IF rec.lap = 1 THEN cfg.producers ELSE ctr[t].current_producer IN
     IF rec.i < limit
     THEN /\ th' = [th EXCEPT ![t] = CallPop(rec, queueMatrix(rec.i, A2A_consumer(t)), "mesh")]
          /\ hist' = hist
     ELSE IF rec.lap = 1
     THEN /\ th' = [th EXCEPT ![t] = [rec EXCEPT !.i = 0, !.lap = 2]]
          /\ hist' = hist
     ELSE Finish(t, rec, NULL)
  /\ UNCHANGED <<cfg, seg, live, freed, qhead, qtail, HP, Retired, ctr, prog, uaf>>

\* pop: the SPSC pop returned nullptr, i++
A2A_PopMiss(t) ==
  /\ th[t].pc = "a_po_miss"
  /\ th' = [th EXCEPT ![t] = [@ EXCEPT !.i = @ + 1, !.pc = "a_po_loop"]]
  /\ UNCHANGED <<cfg, seg, live, freed, qhead, qtail, HP, Retired, ctr, prog, hist, uaf>>

\* pop: current_producer = ((i + 1) == producers) ? 0 : i in the first loop,
\* current_producer = i in the second; return item
A2A_PopHit(t) ==
  /\ th[t].pc = "a_po_hit"
  /\ ctr' = [ctr EXCEPT ![t].current_producer =
               IF th[t].lap = 1 THEN (IF th[t].i + 1 = cfg.producers THEN 0 ELSE th[t].i)
               ELSE th[t].i]
  /\ Finish(t, th[t], th[t].res)
  /\ UNCHANGED <<cfg, seg, live, freed, qhead, qtail, HP, Retired, prog, uaf>>

A2AStep(t) ==
  \/ A2A_PushBegin(t) \/ A2A_PushLoop(t) \/ A2A_PushMiss(t) \/ A2A_PushHit(t)
  \/ A2A_PopBegin(t) \/ A2A_PopLoop(t) \/ A2A_PopMiss(t) \/ A2A_PopHit(t)

\* ------------------------------------------------------------ length()
\* return t > h ? t - h : 0
AdvisoryLength_plus(t, h) == t - h + 1
AdvisoryLength(t, h) == IF t > h THEN t - h ELSE 0

\* QueueSegmentBase::length(): long size = tail.load() - head.load() on the raw
\* tail word, whose top bit is the closed flag
SegLength(s) ==
  IF seg[s].closed
  THEN (IF seg[s].tail >= seg[s].head THEN 0
        ELSE Two64 \div 2 - (seg[s].head - seg[s].tail))
  ELSE AdvisoryLength(seg[s].tail, seg[s].head)

\* what length() returns when it runs without interference
QueueLength ==
  CASE cfg.adapter = "bitem" -> U64Sub(ctr.itemsPushed, ctr.itemsPopped)
    [] cfg.adapter = "bare" -> SegLength(1)
    [] OTHER -> AdvisoryLength(tailIndex(qtail), seg[qhead].head)

\* pushes that have returned true, pops that have returned an item, calls in progress
PushedCount ==
  Cardinality(UNION {{<<t, i>> : i \in {j \in 1..Len(hist.results[t]) :
                                          /\ hist.results[t][j].op # 0
                                          /\ hist.results[t][j].res = 1}} : t \in Threads})
PoppedCount ==
  Cardinality(UNION {{<<t, i>> : i \in {j \in 1..Len(hist.results[t]) :
                                          /\ hist.results[t][j].op = 0
                                          /\ hist.results[t][j].res # NULL}} : t \in Threads})
InFlight == Cardinality({t \in Threads : th[t].pc # "idle"})

\* a thread calls length() between two of its calls; len is the value returned,
\* lenOver records a value above pushed - popped + in flight at that instant
Length(t) ==
  /\ th[t].pc = "idle"
  /\ hist' = [hist EXCEPT !.len = QueueLength,
                          !.lenOver = @ \/ QueueLength > PushedCount - PoppedCount + InFlight]
  /\ UNCHANGED <<cfg, seg, live, freed, qhead, qtail, HP, Retired, ctr, th, prog, uaf>>

\* ------------------------------------------------------------ step groups
CallStep(t) == Invoke(t)

AdapterStep(t) ==
  \/ Push_LoadTail(t) \/ Push_Protect(t) \/ Push_Validate(t) \/ Push_LoadNext(t)
  \/ Push_NewSegment(t) \/ Push_Link(t) \/ Push_SwingTail(t) \/ Push_ReturnTrue(t)
  \/ Pop_LoadHead(t) \/ Pop_Protect(t) \/ Pop_Validate(t) \/ Pop_LoadNext(t)
  \/ Pop_AdvanceHead(t) \/ Pop_ProtectNext(t) \/ Pop_Return(t)

\* steps that need a second thread working on the same adapter
AdapterRaceStep(t) == Push_AdvanceTail(t) \/ Retire_Scan(t)

BItemStep(t) ==
  \/ Push_LengthPushed(t) \/ Push_LengthPopped(t) \/ Push_CountItem(t)
  \/ Push_CountLinked(t) \/ Pop_CountItem(t)

BSegStep(t) ==
  \/ Push_CheckClosed(t) \/ Push_RecheckNext(t) \/ Push_CountTail(t) \/ Push_CountHead(t)
  \/ Push_CountSegment(t) \/ Pop_CountSegment(t)

BoundedStep(t) == Push_ReturnFalse(t)

FixStep(t) == Seg_PopTail(t) \/ Seg_FixRead(t) \/ Seg_FixCAS(t)

CRQStep(t) ==
  \/ CRQ_PushTicket(t) \/ CRQ_PushRead(t) \/ CRQ_PushCAS(t) \/ CRQ_PushFull(t)
  \/ CRQ_PushClose(t) \/ CRQ_PopTicket(t) \/ CRQ_PopRead(t) \/ CRQ_PopCAS(t)

PRQStep(t) ==
  \/ PRQ_PushTicket(t) \/ PRQ_PushReadIdx(t) \/ PRQ_PushReadVal(t) \/ PRQ_PushReserve(t)
  \/ PRQ_PushEpoch(t) \/ PRQ_PushCommit(t) \/ PRQ_PushFull(t) \/ PRQ_PushClose(t)
  \/ PRQ_PopTicket(t) \/ PRQ_PopReadIdx(t) \/ PRQ_PopReadVal(t) \/ PRQ_PopStore(t)
  \/ PRQ_PopReadTail(t) \/ PRQ_PopAdvance(t)

\* steps of Variant-P taken only when threads collide on a cell
PRQRaceStep(t) == PRQ_PushUndo(t) \/ PRQ_PopMark(t) \/ PRQ_PopClearBottom(t)

\* steps of Variant-P on a cell marked unsafe: they need two poppers on one cell
PRQUnsafeStep(t) == PRQ_PushHead(t) \/ PRQ_PopRecheck(t)

MTQPushStep(t) ==
  \/ MTQ_PushLoadTail(t) \/ MTQ_PushReadIdx(t) \/ MTQ_PushCAS(t)
  \/ MTQ_PushWriteVal(t) \/ MTQ_PushWriteIdx(t)

MTQPopStep(t) ==
  \/ MTQ_PopLoadHead(t) \/ MTQ_PopReadIdx(t) \/ MTQ_PopEmpty(t) \/ MTQ_PopCAS(t)
  \/ MTQ_PopReadVal(t) \/ MTQ_PopWriteIdx(t)

AllSteps(t) ==
  \/ CallStep(t) \/ AdapterStep(t) \/ AdapterRaceStep(t) \/ BItemStep(t) \/ BSegStep(t)
  \/ BoundedStep(t) \/ FixStep(t) \/ CRQStep(t) \/ CRQ_PushHead(t) \/ PRQStep(t)
  \/ PRQRaceStep(t) \/ MTQPushStep(t) \/ MTQ_PushClose(t) \/ MTQPopStep(t)

\* ------------------------------------------------------------- programs
\* producer p pushes its items 1..n in order; a consumer calls pop n times
Pushes(p, n) == [k \in 1..n |-> Item(p, k)]
Pops(n) == [k \in 1..n |-> 0]

\* ------------------------------------------------- concurrent executions
\* Rings of one or two cells so that tickets wrap and segments close early.
Init ==
  \/ Construct("linked", "C", FALSE, 1, MAX_SEGMENTS, <<Pushes(0, 2), Pops(3)>>)
  \/ Construct("linked", "C", FALSE, 1, MAX_SEGMENTS, <<Pushes(0, 2), Pushes(1, 1), Pops(1)>>)
  \/ Construct("linked", "C", FALSE, 1, MAX_SEGMENTS, <<Pushes(0, 3), Pops(4)>>)
  \/ Construct("linked", "P", FALSE, 1, MAX_SEGMENTS, <<Pushes(0, 2), Pops(3)>>)
  \/ Construct("linked", "M", FALSE, 2, MAX_SEGMENTS, <<Pushes(0, 3), Pops(2), Pops(2)>>)
  \/ Construct("bseg", "C", FALSE, 1, 2, <<Pushes(0, 4), Pops(3)>>)
  \/ Construct("bseg", "P", TRUE, 2, 2, <<Pushes(0, 3), Pops(3)>>)
  \/ Construct("bitem", "C", TRUE, 1, MAX_SEGMENTS, <<Pushes(0, 3), Pops(3)>>)
  \/ Construct("bitem", "P", FALSE, 1, MAX_SEGMENTS, <<Pushes(0, 2), Pops(3)>>)
  \/ Construct("bitem", "C", FALSE, 1, MAX_SEGMENTS, <<Pushes(0, 1), Pushes(1, 1), Pops(1)>>)
  \/ Construct("bseg", "C", FALSE, 1, 2, <<Pushes(0, 2), Pushes(1, 1)>>)
  \/ Construct("bare", "M", FALSE, 2, MAX_SEGMENTS, <<Pushes(0, 3), Pops(2), Pops(2)>>)
  \/ Construct("bare", "C", FALSE, 1, MAX_SEGMENTS, <<Pushes(0, 2), Pops(1), Pops(1)>>)

Next == \E t \in Threads : AllSteps(t)

Spec == Init /\ [][Next]_vars

\* ---------------------------------------- LPRQueue = LinkedAdapter<PRQueue>
\* One producer against two consumers on rings of one cell, and one producer
\* against one consumer on rings of two cells.
InitLPRQ ==
  \/ Construct("linked", "P", FALSE, 1, MAX_SEGMENTS, <<Pushes(0, 1), Pops(1), Pops(2)>>)
  \/ Construct("linked", "P", FALSE, 2, MAX_SEGMENTS, <<Pushes(0, 2), Pops(2)>>)

StepsLPRQ(t) ==
  \/ CallStep(t) \/ AdapterStep(t) \/ Retire_Scan(t) \/ FixStep(t) \/ PRQStep(t)
  \/ PRQRaceStep(t) \/ PRQ_PopRecheck(t)

\* ------------------------------------------------- the ring segments alone
\* Two consumers against one producer on a ring of one cell (Variant-C and
\* Variant-P) or two cells (Variant-M).
InitRing ==
  \/ Construct("bare", "C", FALSE, 1, MAX_SEGMENTS, <<Pushes(0, 2), Pops(1), Pops(1)>>)
  \/ Construct("bare", "P", FALSE, 1, MAX_SEGMENTS, <<Pushes(0, 2), Pops(1), Pops(1)>>)
  \/ Construct("bare", "M", FALSE, 2, MAX_SEGMENTS, <<Pushes(0, 3), Pops(2), Pops(2)>>)

RingSteps(t) ==
  \/ CallStep(t) \/ FixStep(t) \/ CRQStep(t) \/ CRQ_PushHead(t) \/ PRQStep(t)
  \/ PRQRaceStep(t) \/ PRQUnsafeStep(t) \/ MTQPushStep(t) \/ MTQPopStep(t)

NextRing == \E t \in Threads : RingSteps(t)

SpecRing == InitRing /\ [][NextRing]_vars

NextLPRQ == \E t \in Threads : StepsLPRQ(t)

SpecLPRQ == InitLPRQ /\ [][NextLPRQ]_vars

\* ------------------------------------------------------ serial executions
\* One thread alone: n pushes then n pops, push and pop in alternation, a
\* bounded queue filled beyond capacity() and drained, a full bounded queue
\* after one pop, and pops on a fresh queue.
Fill(n) == Pushes(0, n) \o Pops(n)
Alternate(n) == [k \in 1..(2 * n) |-> IF k % 2 = 1 THEN Item(0, (k + 1) \div 2) ELSE 0]
Overflow(c) == Pushes(0, c + 2) \o Pops(c + 1)
Refill(c) == Pushes(0, c + 1) \o <<0, Item(0, c + 2)>>

MaxFill == 3        \* serial programs push at most this many items before popping
MaxCap == 4         \* serial programs are run on bounded queues of at most this capacity

Variants == {"C", "P", "M"}

InitSerialUnbounded ==
  \E v \in Variants, pow2 \in BOOLEAN, size \in 1..2, n \in 1..MaxFill :
     \E p \in {Fill(n), Alternate(n + 1), Pops(n)} :
        Construct("linked", v, pow2, size, MAX_SEGMENTS, <<p>>)

InitSerialBounded ==
  \E a \in {"bseg", "bitem", "bare"}, v \in Variants, pow2 \in BOOLEAN, size \in 1..4 :
     /\ a = "bare" <=> v = "M"
     /\ LET c == Capacity(a, v, pow2, size, 2) IN
        /\ c \in 1..MaxCap
        /\ \E p \in {Overflow(c), Refill(c), Alternate(c + 1), Pops(2)} :
              Construct(a, v, pow2, size, 2, <<p>>)

InitSerial == InitSerialUnbounded \/ InitSerialBounded

\* the steps a thread running alone can take
SerialSteps(t) ==
  \/ CallStep(t) \/ AdapterStep(t) \/ Retire_Scan(t)
  \/ Push_LengthPushed(t) \/ Push_LengthPopped(t) \/ Push_CountItem(t) \/ Pop_CountItem(t)
  \/ BSegStep(t) \/ BoundedStep(t) \/ FixStep(t) \/ CRQStep(t) \/ PRQStep(t)
  \/ MTQPushStep(t) \/ MTQ_PushClose(t) \/ MTQPopStep(t)

NextSerial == \E t \in Threads : SerialSteps(t)

\* the thread is never descheduled for good: it is the only one there is
SpecSerial == InitSerial /\ [][NextSerial]_vars /\ WF_vars(NextSerial)

\* ------------------------------------------------------------- histories
Calls == UNION {{<<t, i>> : i \in 1..Len(ResultsOf(t))} : t \in Threads}
Call(c) == ResultsOf(c[1])[c[2]]
\* the pop calls that returned an item
PopCalls == {c \in Calls : Call(c).op = 0 /\ Call(c).res # NULL}
\* the items whose push reported success
PushedOK == {Call(c).op : c \in {d \in Calls : Call(d).op # 0 /\ Call(d).res = 1}}
\* every program has run to its end
AllDone == \A t \in Threads : th[t].pc = "idle" /\ prog[t] = <<>>
\* some pop invoked after the last push returned has come back with nullptr
DrainedPop == hist.drained

\* C1: once every producer has finished and a pop invoked with no push in
\* progress has returned nullptr, the pops have returned as many items as pushes
\* reported success.
C1_Conservation ==
  (AllDone /\ DrainedPop) => Cardinality(PopCalls) = Cardinality(PushedOK)

\* C2: no item is returned by more than one pop call.
C2_NoDuplicates ==
  \A c, d \in PopCalls : c # d => Call(c).res # Call(d).res

\* C3: every pointer a pop returns was passed to a push invoked before; it is
\* never a reserved marker of Variant-P nor a value no push has handed over.
C3_NoPhantoms ==
  \A c \in PopCalls : Call(c).res \in hist.invoked /\ ~isBottom(Call(c).res)

\* a pop of Variant-P holds a reserved marker it has read from its cell while
\* earlier pops have returned items
C3_MarkerSeen ==
  /\ cfg.variant = "P"
  /\ PopCalls # {}
  /\ \E t \in Threads : isBottom(th[t].cval)

\* C4: a consumer receives the items of one producer in the order they were pushed.
C4_PerConsumerOrder ==
  \A c, d \in PopCalls :
     (c[1] = d[1] /\ c[2] < d[2] /\ ProducerOf(Call(c).res) = ProducerOf(Call(d).res))
        => SeqOf(Call(c).res) < SeqOf(Call(d).res)

\* C5: no pop returns an item of producer p after a pop that completed before its
\* invocation has returned a later item of p.
C5_PerProducerFIFO == ~hist.overtaken

\* C6: no thread dereferences a segment after it has been deallocated.
C6_NoUseAfterFree == ~uaf

\* a segment the head has moved past has been deallocated by a retire scan while
\* another call is working on a segment it has protected
C6_FreedBehindHead ==
  /\ \E s \in freed : seg[s].next # NULL
  /\ \E t \in Threads : th[t].pc # "idle" /\ th[t].lseg \in live

\* thread t is at a read of the retire scan and the slot it reads holds the
\* retired pointer under examination
ScanHits(t) ==
  /\ th[t].pc = "rt_scan"
  /\ HP[ScanTid(th[t].rt)][ScanHP(th[t].rt)] = Retired[t][th[t].ri]
\* thread t takes a step of its scan
ScanMoves(t) ==
  th[t].pc = "rt_scan" /\ <<th[t].pc, th[t].ri, th[t].rt>>' # <<th[t].pc, th[t].ri, th[t].rt>>

\* C15: a read of the retire scan that finds the retired pointer in the hazard
\* slot leaves the pointer allocated and in the retired list of the scanning
\* thread, and a retiring thread never frees a pointer held in one of its own slots.
C15_HazardProtection ==
  [][\A t \in Threads :
       /\ (ScanHits(t) /\ ScanMoves(t)) =>
             LET o == Retired[t][th[t].ri] IN
             /\ (o \in live => o \in live')
             /\ \E j \in 1..Len(Retired'[t]) : Retired'[t][j] = o
       /\ Retired'[t] # Retired[t] =>
             \A o \in live \ live' : \A h \in 0..(maxHPs - 1) : HP[t][h] # o]_vars

\* the scan of one thread reads a slot of another thread that holds the retired
\* pointer
C15_ScanFindsHazard == \E t \in Threads : ScanHits(t) /\ Retired[t][th[t].ri] \in live

\* in this step the segment push of thread t returns ok to its caller
RingPushReturns(t, ok) ==
  /\ th[t].sg # 0 /\ th[t].op # 0
  /\ th'[t].sg = 0
  /\ IF th[t].site = "bare"
     THEN hist'.results[t] = Append(hist.results[t], [op |-> th[t].op, res |-> ok])
     ELSE th'[t].pc = AfterSegPush(th[t], ok).pc
\* thread t is at the step of push that takes a ticket from tail
AtPushTicket(t) == th[t].pc \in {"c_push", "p_push", "m_push", "m_pu_cas"}

\* C16 as stated: no segment push returns true on a segment whose closed bit is
\* set, whenever it took its ticket.
C16_ClosedMonotonic ==
  [][\A t \in Threads : RingPushReturns(t, 1) => ~seg[th[t].sg].closed]_vars

\* C16 as the code has it: the closed bit of an allocated segment is never
\* cleared, and a push that reaches for its ticket once the bit is set takes no
\* ticket and returns false.
C16_ClosedAtTicket ==
  [][/\ \A s \in live \cap live' : seg[s].closed => seg'[s].closed
     /\ \A t \in Threads :
          (AtPushTicket(t) /\ seg[th[t].sg].closed /\ th'[t].pc # th[t].pc) =>
             \/ RingPushReturns(t, 0)
             \/ th[t].pc = "m_pu_cas" /\ th'[t].pc = "m_push" /\ seg' = seg]_vars

\* a push is about to take its ticket from a segment that another push closed
C16_TicketOnClosed ==
  \E t \in Threads : AtPushTicket(t) /\ th[t].sg \in live /\ seg[th[t].sg].closed

\* node_index and the idx word of a cell: the unsafe flag is its top bit
node_index(c) == c.idx
set_unsafe(i) == i + Two64 \div 2
IndexWord(c) == IF c.unsafe THEN set_unsafe(node_index(c)) ELSE node_index(c)
\* the cells of the segments that stay allocated over a step
KeptCells == UNION {{<<s, p>> : p \in DOMAIN seg[s].cell} : s \in live \cap live'}

\* C17 as stated: the idx word of a cell, unsafe bit included, never decreases.
C17_IndexWordMonotonic ==
  [][\A c \in KeptCells :
       IndexWord(seg'[c[1]].cell[c[2]]) >= IndexWord(seg[c[1]].cell[c[2]])]_vars

\* C17 as the code has it: the index held in the idx word of a cell
\* (node_index, the word without its unsafe bit) never decreases.
C17_EpochMonotonic ==
  [][\A c \in KeptCells :
       node_index(seg'[c[1]].cell[c[2]]) >= node_index(seg[c[1]].cell[c[2]])]_vars

\* a cell marked unsafe has been moved on to a later index
C17_UnsafeAdvanced ==
  \E s \in live : \E p \in DOMAIN seg[s].cell :
     seg[s].cell[p].unsafe /\ seg[s].cell[p].idx >= seg[s].start + 2 * N

\* ------------------------------------------------------------ contents
\* the segments linked from segment s on
RECURSIVE Chain(_)
Chain(s) == IF s = NULL THEN {} ELSE {s} \cup Chain(seg[s].next)
\* the segments of the queue: the chain from the global head, or the ring used alone
QueueSegments == IF cfg.adapter = "bare" THEN {1} ELSE Chain(qhead)
\* the cells of the queue that hold an item
Stored ==
  {c \in UNION {{<<s, p>> : p \in DOMAIN seg[s].cell} : s \in QueueSegments} :
     LET v == seg[c[1]].cell[c[2]].val IN v # NULL /\ ~isBottom(v)}

\* C10: the bounded-item adapter never stores more than capacity() items.
C10_ItemCap == cfg.adapter = "bitem" => Cardinality(Stored) <= cfg.cap

ItemsIn(s) ==
  {seg[s].cell[p].val : p \in {q \in DOMAIN seg[s].cell :
                                  seg[s].cell[q].val # NULL /\ ~isBottom(seg[s].cell[q].val)}}
\* the items that pops have returned or hold on their way out
Taken == Returned \cup {th[u].res : u \in {v \in Threads : InPop(v)}}

\* C14: a push on the unbounded linked adapter never reports failure, when it
\* is about to return its item is in the queue (or already taken out of it), and
\* no item is ever in two cells of the queue: a private segment that lost the
\* link race leaves nothing behind.
C14_InfalliblePush ==
  cfg.adapter = "linked" =>
    /\ \A c \in Calls : Call(c).op # 0 => Call(c).res = 1
    /\ \A t \in Threads : th[t].pc = "pu_okclr" =>
          th[t].op \in UNION {ItemsIn(s) : s \in Chain(qhead)} \cup Taken
    /\ \A c, d \in Stored :
          seg[c[1]].cell[c[2]].val = seg[d[1]].cell[d[2]].val => c = d

\* a push returns after its first private segment lost the link race and was
\* deleted
C14_RetriedAfterDiscard ==
  /\ cfg.adapter = "linked"
  /\ \E t \in Threads : th[t].pc = "pu_okclr" /\ th[t].lost

\* C11: the bounded-segment adapter never has more than maxSegments segments
\* linked from the global head.
C11_SegmentCap == cfg.adapter = "bseg" => Cardinality(Chain(qhead)) <= cfg.K

\* ------------------------------------------------- a suspended thread
\* Variant-M used alone by three OS threads; thread 1 may stop for good at any
\* point, the other threads are scheduled again and again.
InitSuspend ==
  \/ Construct("bare", "M", FALSE, 2, MAX_SEGMENTS, <<Pushes(0, 2), Pops(1), Pops(1)>>)
  \/ Construct("bare", "M", FALSE, 2, MAX_SEGMENTS, <<Pops(1), Pushes(0, 2), Pops(1)>>)
SuspendSteps(t) == CallStep(t) \/ MTQPushStep(t) \/ MTQPopStep(t)
NextSuspend == \E t \in Threads : SuspendSteps(t)
SpecSuspend ==
  InitSuspend /\ [][NextSuspend]_vars /\ \A t \in Threads \ {1} : WF_vars(SuspendSteps(t))

\* C18: whatever thread 1 does, and wherever it stops, the calls of the other
\* threads all return.
C18_LockFree == <>(\A t \in Threads \ {1} : th[t].pc = "idle" /\ prog[t] = <<>>)

\* ------------------------------------------------- length() between calls
\* Fresh queues of every kind that are only popped, and short concurrent runs,
\* with length() called by any thread that is between two calls.
InitLength ==
  \/ \E v \in Variants, pow2 \in BOOLEAN, size \in 1..2 :
       Construct("linked", v, pow2, size, MAX_SEGMENTS, <<Pops(2)>>)
  \/ \E a \in {"bseg", "bitem"}, v \in {"C", "P"}, pow2 \in BOOLEAN :
       Construct(a, v, pow2, 2, 2, <<Pops(2)>>)
  \/ Construct("bare", "M", FALSE, 2, MAX_SEGMENTS, <<Pops(2)>>)
  \/ Construct("bare", "M", FALSE, 2, MAX_SEGMENTS, <<Pushes(0, 2), Pops(2)>>)
  \/ Construct("linked", "C", FALSE, 1, MAX_SEGMENTS, <<Pushes(0, 2), Pops(2)>>)
  \/ Construct("linked", "M", FALSE, 2, MAX_SEGMENTS, <<Pushes(0, 3), Pops(2)>>)
  \/ Construct("linked", "P", FALSE, 1, MAX_SEGMENTS, <<Pushes(0, 2), Pops(1)>>)
  \/ Construct("bseg", "C", FALSE, 1, 2, <<Pushes(0, 3), Pops(2)>>)
  \/ Construct("bitem", "C", FALSE, 1, MAX_SEGMENTS, <<Pushes(0, 2), Pops(2)>>)
LengthSteps(t) ==
  \/ Length(t) \/ CallStep(t) \/ AdapterStep(t) \/ Retire_Scan(t)
  \/ Push_LengthPushed(t) \/ Push_LengthPopped(t) \/ Push_CountItem(t) \/ Pop_CountItem(t)
  \/ Push_RecheckNext(t) \/ Push_CountTail(t) \/ Push_CountHead(t)
  \/ Push_CountSegment(t) \/ Pop_CountSegment(t) \/ BoundedStep(t) \/ FixStep(t)
  \/ CRQStep(t) \/ PRQStep(t) \/ PRQRaceStep(t)
  \/ MTQPushStep(t) \/ MTQ_PushClose(t) \/ MTQPopStep(t)
NextLength == \E t \in Threads : LengthSteps(t)
SpecLength == InitLength /\ [][NextLength]_vars

\* C19: on a queue that no push has been called on, length() returns 0 and
\* every pop returns nullptr.
C19_FreshEmpty ==
  hist.invoked = {} =>
    /\ hist.len \in {-1, 0}
    /\ \A c \in Calls : Call(c).res = NULL

\* length() has returned 0 and two pops have returned nullptr on a fresh queue
C19_FreshPopped ==
  hist.invoked = {} /\ hist.len = 0 /\ \E t \in Threads : Len(ResultsOf(t)) >= 2

\* C20: length() never returns more than the pushes that have succeeded minus
\* the pops that have returned an item plus the calls in progress; a wrapped
\* value is far above that.
C20_LengthBounds == hist.len >= -1 /\ ~hist.lenOver

\* ------------------------------------------------- serial histories
\* the calls of the thread that runs alone
Serial == ResultsOf(1)
\* all pushes of the history come before its first pop
PushesFirst(r) == \A i, j \in 1..Len(r) : (i < j /\ r[i].op = 0) => r[j].op = 0
\* the history is push, pop, push, pop, ...
AlternateShape(r) == \A i \in 1..Len(r) : (r[i].op = 0) <=> (i % 2 = 0)
NumPushes(r) == Cardinality({i \in 1..Len(r) : r[i].op # 0})
\* the program is n pushes followed by n pops on the unbounded adapter
FillRun == cfg.adapter = "linked" /\ \E n \in 1..MaxFill : prog[1] = Fill(n)
\* every push succeeded and the k-th pop returned the k-th pushed pointer
FifoResults ==
  LET r == Serial
      n == NumPushes(r) IN
  /\ Len(r) = 2 * n
  /\ \A k \in 1..n : r[k].res = 1 /\ r[n + k].op = 0 /\ r[n + k].res = r[k].op

\* C7: on the unbounded adapter, n pushes followed by n pops by a single thread
\* all return, and the pops return the n pushed pointers in push order, also
\* when n exceeds the ring size and the items span several segments.
C7_SerialFIFO == FillRun => <>(AllDone /\ FifoResults)

\* C8: in a serial alternation push(x); pop() from the empty queue every pop
\* returns the pointer pushed just before it.
C8_RoundTrip ==
  LET r == Serial IN
  AlternateShape(r) => \A i \in 1..Len(r) : i % 2 = 0 => r[i].res = r[i - 1].op

\* the alternation has gone round the ring: more iterations than the ring has cells
C8_Wrapped ==
  LET r == Serial IN
  AlternateShape(r) /\ Len(r) >= 2 * (N + 1) /\ r[Len(r)].res # NULL

\* C9: on a bounded queue, once capacity() pushes have succeeded with no pop,
\* every further push returns false, and the pops that follow return those
\* items in push order and then nullptr.
C9_BoundedOverflow ==
  LET r == Serial
      c == cfg.cap
      np == NumPushes(r) IN
  (/\ cfg.adapter # "linked"
   /\ PushesFirst(r)
   /\ Len(r) >= c
   /\ \A i \in 1..c : r[i].op # 0 /\ r[i].res = 1)
  => \A i \in (c + 1)..Len(r) :
        IF r[i].op # 0 THEN r[i].res = 0
        ELSE r[i].res = (IF i - np <= c THEN r[i - np].op ELSE NULL)

\* the history is capacity() successful pushes, a rejected push, one
\* successful pop and one more push
FullThenPop(r) ==
  LET c == cfg.cap IN
  /\ cfg.adapter # "linked"
  /\ Len(r) = c + 3
  /\ \A i \in 1..c : r[i].op # 0 /\ r[i].res = 1
  /\ r[c + 1].op # 0 /\ r[c + 1].res = 0
  /\ r[c + 2].op = 0 /\ r[c + 2].res # NULL
  /\ r[c + 3].op # 0

\* C12: on a full bounded queue (capacity() pushes succeeded, one more was
\* rejected, no pop yet) the push that follows one successful pop returns true.
C12_PushAfterPop == FullThenPop(Serial) => Serial[Len(Serial)].res = 1

\* ------------------------------------------------- linking a new segment
\* segment a can be reached through the shared pointers of the queue
Shared(a) == a = qhead \/ a = qtail \/ \E s \in live : seg[s].next = a
\* thread t holds a segment it has allocated and not yet offered to the link CAS
HoldsPrivate(t) == th[t].pc = "pu_link"

\* C21: the next pointer of a segment changes only once, from null to the new
\* segment of a thread at its link CAS on that segment; a segment that has not
\* been linked is reachable through no shared pointer, and the thread whose
\* link CAS fails deletes its segment in the same step.
C21_SingleLinker ==
  [][/\ \A s \in live \cap live' :
          seg'[s].next # seg[s].next =>
             /\ seg[s].next = NULL
             /\ \E t \in Threads : /\ HoldsPrivate(t) /\ th[t].lseg = s
                                   /\ th[t].newTail = seg'[s].next
     /\ \A t \in Threads :
          HoldsPrivate(t) =>
             /\ th[t].newTail \in live
             /\ ~Shared(th[t].newTail)
             /\ (th'[t].pc = "pu_prot" => th[t].newTail \notin live')]_vars

\* one producer has just lost the link race and deleted its segment while the
\* winner is still inside its push
C21_LinkLost ==
  \E t \in Threads, u \in Threads :
     /\ t # u
     /\ th[t].pc = "pu_prot" /\ th[t].lost /\ th[t].newTail = 0
     /\ th[u].pc \in {"pu_swing", "pu_incr2", "pu_segincr", "pu_okclr"}
     /\ th[u].newTail = th[t].lseg

\* ------------------------------------------------- retire under load
\* One thread that fills nine rings of one cell and drains them, so that it
\* retires eight segments in a row; the same thread against a second consumer;
\* two producers against a consumer.
MaxHeap == 9        \* addresses available to the long serial run
InitRetire ==
  \/ ConstructOn(1..MaxHeap, "linked", "C", FALSE, 1, MAX_SEGMENTS,
                 <<Pushes(0, 7) \o Pushes(1, 2) \o Pops(9)>>)
  \/ Construct("linked", "C", FALSE, 1, MAX_SEGMENTS, <<Pushes(0, 3) \o Pops(3), Pops(1)>>)
  \/ Construct("linked", "C", FALSE, 1, MAX_SEGMENTS, <<Pushes(0, 2), Pushes(1, 1), Pops(1)>>)

RetireSteps(t) ==
  \/ CallStep(t) \/ AdapterStep(t) \/ AdapterRaceStep(t) \/ Retire_Scan(t)
  \/ FixStep(t) \/ CRQStep(t)

NextRetire == \E t \in Threads : RetireSteps(t)

SpecRetire == InitRetire /\ [][NextRetire]_vars

\* the hazard reads the scan of thread t still has before it, at most
ScanWork(t) ==
  IF th[t].pc = "rt_scan"
  THEN (Len(Retired[t]) - th[t].ri) * (ScanEnd + 1) + (ScanEnd + 1 - th[t].rt)
  ELSE 0

\* C22: a thread inside retire can always take its next step; every step it
\* takes lowers the work its scan has left, no step of another thread raises
\* it, and the retired list never holds more entries than the hazard matrix
\* has slots plus one.
C22_WaitFreeRetire ==
  [][\A t \in Threads :
        /\ Len(Retired'[t]) <= maxHPs * Cardinality(Threads) + 1
        /\ th[t].pc = "rt_scan" =>
             /\ ENABLED Retire_Scan(t)
             /\ ScanWork(t) <= Len(Retired[t]) * (ScanEnd + 1)
             /\ IF <<th'[t].pc, th'[t].ri, th'[t].rt>> = <<th[t].pc, th[t].ri, th[t].rt>>
                THEN Retired'[t] = Retired[t]
                ELSE th'[t].pc = "rt_scan" => ScanWork(t)' < ScanWork(t)]_vars

\* a scan passes over a segment retired by an earlier call and still listed,
\* while the hazard slot of another thread holds the segment under examination
C22_ScanKeepsEntry ==
  \E t \in Threads, u \in Threads :
     /\ t # u
     /\ th[t].pc = "rt_scan" /\ Len(Retired[t]) >= 2
     /\ \E h \in 0..(maxHPs - 1) : HP[u][h] = Retired[t][th[t].ri]

\* ------------------------------------------------- the SPSC ring alone
\* Thread 1 pushes and thread 2 pops on one SPSCQueue of one to three cells.
InitSPSC ==
  \E size \in 1..3 :
     Construct("bare", "S", FALSE, size, MAX_SEGMENTS, <<Pushes(0, 4), Pops(4)>>)

NextSPSC == \E t \in Threads : CallStep(t) \/ SPSCStep(t)

SpecSPSC == InitSPSC /\ [][NextSPSC]_vars

\* the pointers the ring has taken in, in push order: the pushes that returned
\* true and the push that has stored its pointer and not yet returned
Accepted ==
  LET ok == SelectSeq(ResultsOf(1), LAMBDA c : c.res = 1) IN
  [k \in 1..Len(ok) |-> ok[k].op] \o (IF th[1].pc = "s_pu_tail" THEN <<th[1].op>> ELSE <<>>)
\* the pointers the ring has given out, in pop order: the pops that returned
\* a pointer and the pop that has cleared its cell and not yet returned
Delivered ==
  [k \in 1..Len(PopsOf(2)) |-> PopsOf(2)[k].res]
     \o (IF th[2].pc = "s_po_head" THEN <<th[2].cval>> ELSE <<>>)

\* C23: the SPSC ring is a FIFO buffer of capacity N: what has been given out
\* is a prefix of what has been taken in, the rest (at most N pointers) sits in
\* the cells in ring order and nothing else does, push is about to return
\* false only with N pointers stored and pop nullptr only with none.
C23_BoundedFIFO ==
  cfg.variant = "S" /\ cfg.adapter = "bare" =>
    LET d == Len(Delivered)
        a == Len(Accepted)
        q == seg[1] IN
    /\ d <= a /\ a - d <= N
    /\ \A k \in 1..d : Delivered[k] = Accepted[k]
    /\ \A k \in (d + 1)..a : q.cell[(k - 1) % N].val = Accepted[k]
    /\ Cardinality({p \in 0..(N - 1) : q.cell[p].val # NULL}) = a - d
    /\ (th[1].pc = "s_push" /\ q.cell[q.tail].val # NULL => a - d = N)
    /\ (th[2].pc = "s_pop" /\ q.cell[q.head].val = NULL => a - d = 0)

\* the ring has gone round while both threads were at work: more pointers than
\* it has cells have come out, a push has found it full and a pop has found
\* it empty
C23_WrappedBothWays ==
  /\ cfg.variant = "S" /\ cfg.adapter = "bare"
  /\ Len(Delivered) > N
  /\ \E k \in 1..Len(ResultsOf(1)) : ResultsOf(1)[k].res = 0
  /\ \E k \in 1..Len(ResultsOf(2)) : ResultsOf(2)[k].res = NULL
  /\ th[1].pc # "idle" /\ th[2].pc # "idle"

\* ------------------------------------------------- the All2All mesh
\* One producer against two consumers, two producers against one consumer;
\* thread ids 0..P-1 produce and P..P+C-1 consume, as in the benchmark.
InitMesh ==
  \/ \E size \in {2, 4} : ConstructMesh(size, 1, 2, <<Pushes(0, 3), Pops(2), Pops(2)>>)
  \/ \E size \in {2, 4} : ConstructMesh(size, 2, 1, <<Pushes(0, 2), Pushes(1, 2), Pops(3)>>)

NextMesh == \E t \in Threads : CallStep(t) \/ A2AStep(t) \/ SPSCStep(t)

SpecMesh == InitMesh /\ [][NextMesh]_vars

\* the pointers handed to the mesh: pushes that returned true or have stored
\* their pointer
MeshIn ==
  PushedOK \cup {th[t].op : t \in {u \in Threads : th[u].pc \in {"s_pu_tail", "a_pu_hit"}}}
\* the pointers taken out: returned by a pop or held by a pop that has cleared its cell
MeshOut ==
  Returned \cup {th[t].cval : t \in {u \in Threads : th[u].pc = "s_po_head"}}
           \cup {th[t].res : t \in {u \in Threads : th[u].pc = "a_po_hit"}}
\* the cells of the mesh that hold a pointer
MeshCells ==
  {c \in UNION {{<<q, p>> : p \in DOMAIN seg[q].cell} : q \in DOMAIN seg} :
     seg[c[1]].cell[c[2]].val # NULL}

\* C24: every pointer handed to the mesh is in exactly one cell or has been
\* taken out by exactly one pop, never both; once all calls have returned and
\* the cells are empty every pushed pointer has been popped; and a consumer
\* receives the pointers of one producer in push order.
C24_MeshPerProducerFIFO ==
  cfg.adapter = "mesh" =>
    /\ \A c, d \in PopCalls : c # d => Call(c).res # Call(d).res
    /\ \A c, d \in MeshCells : c # d => seg[c[1]].cell[c[2]].val # seg[d[1]].cell[d[2]].val
    /\ {seg[c[1]].cell[c[2]].val : c \in MeshCells} \cap MeshOut = {}
    /\ {seg[c[1]].cell[c[2]].val : c \in MeshCells} \cup MeshOut = MeshIn
    /\ (AllDone /\ MeshCells = {} => Returned = PushedOK)
    /\ \A c, d \in PopCalls :
          (c[1] = d[1] /\ c[2] < d[2] /\ ProducerOf(Call(c).res) = ProducerOf(Call(d).res))
             => SeqOf(Call(c).res) < SeqOf(Call(d).res)

\* a consumer has received two pointers of one producer and pointers of two
\* producers, or two consumers have each received a pointer
C24_MeshDelivered ==
  /\ cfg.adapter = "mesh"
  /\ \E c, d \in PopCalls :
        /\ c[1] = d[1] /\ c[2] < d[2]
        /\ ProducerOf(Call(c).res) = ProducerOf(Call(d).res)
  /\ \E c, d \in PopCalls :
        c[1] # d[1] \/ ProducerOf(Call(c).res) # ProducerOf(Call(d).res)

\* C25: the push that succeeds on column i leaves the cursor of its thread at
\* (i + 1) mod consumers, the pop that succeeds on row i at (i + 1) mod producers.
C25_RoundRobinCursor ==
  [][\A t \in Threads :
        /\ (th[t].pc = "a_pu_hit" /\ th'[t].pc = "idle") =>
              ctr'[t].current_consumer = (th[t].i + 1) % cfg.consumers
        /\ (th[t].pc = "a_po_hit" /\ th'[t].pc = "idle") =>
              ctr'[t].current_producer = (th[t].i + 1) % cfg.producers]_vars

\* ------------------------------------------------ push(nullptr, tid)
PushNull == <<-1>>

InitNull ==
  \/ Construct("linked", "C", FALSE, 1, MAX_SEGMENTS,
               <<Pushes(0, 1) \o PushNull \o Pushes(0, 1) \o Pops(3), Pops(1)>>)
  \/ Construct("linked", "C", FALSE, 1, MAX_SEGMENTS,
               <<PushNull \o Pops(1), Pushes(1, 2)>>)

NextNull == \E t \in Threads : RetireSteps(t)

SpecNull == InitNull /\ [][NextNull]_vars

\* C26: a call push(nullptr, tid) changes no segment and neither end of the
\* queue while it runs, and it does not return as a successful push.
C26_NullRejected ==
  [][\A t \in Threads :
        (th[t].pc # "idle" /\ th[t].op < 0 /\ th'[t].pc # th[t].pc) =>
           /\ <<seg, live, qhead, qtail>>' = <<seg, live, qhead, qtail>>
           /\ th'[t].pc = "idle" =>
                hist'.results[t][Len(hist'.results[t])].res # 1]_vars

\* ------------------------------------------------ capacity zero
\* The rings of the default build (sizes rounded to a power of two) asked for
\* zero and for one cell, next to the runs of InitRing.
InitZero ==
  \/ InitRing
  \/ \E v \in Variants, size \in 0..1 :
       Construct("bare", v, TRUE, size, MAX_SEGMENTS, <<Pushes(0, 2), Pops(2)>>)

NextZero == \E t \in Threads : RingSteps(t)

SpecZero == InitZero /\ [][NextZero]_vars

\* C27: no queue exists that was constructed with capacity zero, and no ring
\* has zero cells.
C27_ZeroRefused == cfg.size # 0 /\ cfg.N # 0

\* ------------------------------------------------ closing a full ring
\* Two producers on a full one-cell ring: each fetch_add of one makes the close
\* CAS of the other fail.  The runs are followed LongTicket tickets past the ring.
LongTicket == 26

InitClose ==
  \E v \in {"C", "P"} :
    ConstructWith(LongTicket, SegIds, "bare", v, FALSE, 1, MAX_SEGMENTS,
                  <<Pushes(0, 2) \o Pops(2), Pushes(1, 1)>>)

NextClose == \E t \in Threads : CallStep(t) \/ CRQStep(t) \/ PRQStep(t)

SpecClose == InitClose /\ [][NextClose]_vars

\* C28: no call of a ring's push loses the close CAS more than TRY_CLOSE times:
\* the attempt after the TRY_CLOSE-th lost one is made with atomic-or.
C28_ForcedClose ==
  \A t \in Threads :
    th[t].fails <= (CASE cfg.variant = "C" -> TRY_CLOSE_CRQ
                      [] cfg.variant = "P" -> TRY_CLOSE_PRQ
                      [] OTHER -> TRY_CLOSE_MTQ)

\* ------------------------------------------------ segments left behind
\* A consumer racing a producer that fills and replaces one-cell rings, and two
\* producers on a ring of two cells, one of them holding a ticket while the
\* other closes the ring and links its successor.
InitStrand ==
  \/ Construct("linked", "C", FALSE, 1, MAX_SEGMENTS, <<Pushes(0, 3) \o Pops(3), Pops(1)>>)
  \/ Construct("linked", "C", FALSE, 2, MAX_SEGMENTS, <<Pushes(0, 2), Pushes(1, 1), Pops(3)>>)

NextStrand == \E t \in Threads : RetireSteps(t)

SpecStrand == InitStrand /\ [][NextStrand]_vars

\* the segments the global head has been advanced past: the head segment is
\* reached from them along next
Passed == {s \in DOMAIN seg : seg[s].next # NULL /\ qhead \in Chain(seg[s].next)}
\* the items in cells of s whose ticket is held by a pop in progress on s
TicketHeld(s) ==
  {(IF cfg.variant = "P" THEN PCell(s, th[u].tkt) ELSE Cell(s, th[u].tkt)).val :
     u \in {v \in Threads : /\ InPop(v) /\ th[v].sg = s
                            /\ th[v].pc \in {"c_po_read", "c_po_cas", "m_po_rval", "m_po_widx",
                                             "p_po_idx", "p_po_val", "p_po_store"}}}

\* C29: an item in a cell of a segment the global head has been advanced past
\* has been returned by a pop, or a pop in progress holds it or the ticket of
\* its cell; once every call has returned, every such item has been returned.
C29_NoStranded ==
  cfg.adapter \in {"linked", "bseg", "bitem"} =>
    \A s \in Passed :
      /\ ItemsIn(s) \subseteq Taken \cup TicketHeld(s)
      /\ AllDone => ItemsIn(s) \subseteq Returned

\* a retired segment behind the head still has in a cell an item that no pop
\* has taken yet
C29_ItemBehindHead ==
  \E s \in Passed :
    /\ \E t \in Threads : \E k \in 1..Len(Retired[t]) : Retired[t][k] = s
    /\ ItemsIn(s) \ Taken # {}

\* ------------------------------------------------ cells and positions
\* the array position of the cell a ticket is mapped to
PositionOf(ticket) == IF cfg.variant = "P" THEN ticket % N ELSE Remap(N, ticket % N)

\* C30 as stated: in every ring variant the index held by a cell is mapped to
\* the position of that cell.
C30_CellPosition ==
  cfg.variant \in Variants =>
    \A s \in live : \A p \in DOMAIN seg[s].cell :
      PositionOf(node_index(seg[s].cell[p])) = p

\* C30 as the code has it: in Variant-C and Variant-P the index held by a cell
\* is mapped to the position of that cell; in Variant-M the sequence number of
\* a cell is mapped to its position while the cell waits for a push, and is one
\* more than such a number while the cell holds an item for pop.
C30_CellPositionOrFilled ==
  cfg.variant \in Variants =>
    \A s \in live : \A p \in DOMAIN seg[s].cell :
      LET c == seg[s].cell[p] IN
      \/ PositionOf(node_index(c)) = p
      \/ /\ cfg.variant = "M"
         /\ c.val # NULL /\ node_index(c) > 0
         /\ PositionOf(node_index(c) - 1) = p

\* in a ring of two or more cells that does not start at index 0, a cell has
\* gone round the ring
C30_RevolvedOffOrigin ==
  /\ cfg.variant \in Variants /\ N >= 2
  /\ \E s \in live : /\ seg[s].start > 0
                     /\ \E p \in DOMAIN seg[s].cell :
                          node_index(seg[s].cell[p]) >= seg[s].start + N

\* ------------------------------------------------ head and tail at rest
\* no push or pop is in progress on segment s
Quiescent(s) == \A t \in Threads : th[t].sg # s \/ th[t].pc = "idle"

\* C31: whenever no push or pop is in progress on a segment, closed or not,
\* its head is at most the index held in its tail.
C31_QuiescentOrder ==
  \A s \in live : Quiescent(s) => seg[s].head <= tailIndex(s)

\* ------------------------------------------------ the fill guard of Variant-C
\* C32: a Variant-C push holding ticket t goes on to its CAS2 exactly when the
\* cell it read has a null value and an index of at most t and either is not
\* marked unsafe or the head it then loads is at most t.
C32_FillGuard ==
  [][\A t \in Threads :
        /\ (th[t].pc = "c_pu_read" /\ th'[t].pc # "c_pu_read") =>
              LET c == Cell(th[t].sg, th[t].tkt)
                  empty == c.val = NULL /\ node_index(c) <= th[t].tkt IN
              /\ th'[t].pc = "c_pu_cas" <=> (empty /\ ~c.unsafe)
              /\ th'[t].pc = "c_pu_head" <=> (empty /\ c.unsafe)
        /\ (th[t].pc = "c_pu_head" /\ th'[t].pc # "c_pu_head") =>
              (th'[t].pc = "c_pu_cas" <=> seg[th[t].sg].head <= th[t].tkt)]_vars

\* ------------------------------------------------ cells given up by a pop
\* the ticket of the push whose item the cell holds
FillTicket(c) == IF cfg.variant = "P" THEN node_index(c) - N ELSE node_index(c)

\* C33: a cell of Variant-C or Variant-P that holds an item was filled by a
\* push whose ticket is greater than the head ticket of every pop that found
\* the cell empty and moved it to the next epoch.
C33_AbandonedNotReused ==
  cfg.variant \in {"C", "P"} =>
    \A s \in live : \A p \in DOMAIN seg[s].cell :
      LET c == seg[s].cell[p] IN
      (c.val # NULL /\ ~isBottom(c.val)) =>
         \A g \in hist.given :
            (g[1] = s /\ g[2] = seg[s].start /\ g[3] = p) => g[4] < FillTicket(c)

\* a cell a pop had given up holds an item again
C33_FilledAfterGivenUp ==
  /\ cfg.variant \in {"C", "P"}
  /\ \E s \in live : \E p \in DOMAIN seg[s].cell :
        /\ seg[s].cell[p].val # NULL /\ ~isBottom(seg[s].cell[p].val)
        /\ \E g \in hist.given : g[1] = s /\ g[2] = seg[s].start /\ g[3] = p

\* a push holds a ticket no greater than that of a pop that gave its cell up,
\* and is past the fill guard, about to attempt a CAS on the cell
C33_LatePushOnGivenUp ==
  \E t \in Threads :
     /\ th[t].pc \in {"c_pu_cas", "p_pu_cas2", "p_pu_cas3"}
     /\ th[t].sg \in live
     /\ \E g \in hist.given :
           /\ g[1] = th[t].sg /\ g[2] = seg[th[t].sg].start
           /\ g[3] = Remap(N, th[t].tkt % N)
           /\ g[4] >= th[t].tkt

\* ------------------------------------------------ reserved markers of Variant-P
\* a call of PRQueue::push is in progress on segment s
PushInProgress(s) ==
  \E t \in Threads :
     /\ th[t].sg = s
     /\ th[t].pc \in {"p_push", "p_pu_idx", "p_pu_val", "p_pu_head", "p_pu_cas1",
                      "p_pu_cas2", "p_pu_cas3", "p_pu_undo", "p_pu_full", "p_pu_close"}
\* the positions of segment s whose value is a reserved marker
Markers(s) == {p \in DOMAIN seg[s].cell : isBottom(seg[s].cell[p].val)}

\* C34: whenever no push is in progress on a Variant-P segment, no cell of the
\* segment holds a reserved marker; a marker in a cell belongs to a push that
\* is between its step (a) and its step (c) or its undo on that cell.
C34_NoMarkerLeft ==
  cfg.variant = "P" =>
    \A s \in live :
       /\ ~PushInProgress(s) => Markers(s) = {}
       /\ \A p \in Markers(s) :
             \E t \in Threads :
                /\ th[t].sg = s /\ th[t].tkt % N = p
                /\ th[t].pc \in {"p_pu_cas2", "p_pu_cas3", "p_pu_undo"}
                /\ seg[s].cell[p].val = threadLocalBottom(t)

\* a push attempt reserved a cell and did not store its item there, and no
\* push is in progress on any segment
C34_DroppedAtRest ==
  /\ cfg.variant = "P" /\ hist.dropped
  /\ \A s \in live : ~PushInProgress(s)

\* ------------------------------------------------ the reclaimed enqueue of Variant-P
\* thread t has reserved a cell with its marker (step (a)) and a consumer has
\* taken the marker out before t's step (c)
Reclaimed(t) ==
  /\ cfg.variant = "P"
  /\ th[t].pc \in {"p_pu_cas2", "p_pu_cas3"}
  /\ th[t].sg \in live
  /\ PCell(th[t].sg, th[t].tkt).val # threadLocalBottom(t)
\* item x is in no cell and no pop holds or has returned it
NowhereYet(x) ==
  /\ \A s \in live : x \notin ItemsIn(s)
  /\ x \notin Returned
  /\ \A u \in Threads : th[u].cval # x /\ th[u].res # x
\* thread t's call of the segment's push reports success in this step
ReportsSuccess(t) ==
  /\ th[t].pc \in {"p_push", "p_pu_idx", "p_pu_val", "p_pu_head", "p_pu_cas1",
                   "p_pu_cas2", "p_pu_cas3", "p_pu_undo", "p_pu_full", "p_pu_close"}
  /\ \/ th'[t].pc \in {"pu_okclr", "pu_incr"}
     \/ /\ Len(hist'.results[t]) = Len(hist.results[t]) + 1
        /\ hist'.results[t][Len(hist'.results[t])].res = 1

\* C35: once a consumer has taken thread t's marker out of the cell, the
\* attempt of t on that cell changes nothing in the cell: its CAS (c) fails and
\* it goes on to the full test, reporting nothing. A push reports success only
\* in the step in which its CAS (c) stores the item, and that step stores an
\* item that was in no cell and in no pop before: the item is enqueued at most
\* once and a successful push has enqueued it.
C35_ReclaimedEnqueue ==
  [][\A t \in Threads :
        /\ (Reclaimed(t) /\ th'[t].pc # th[t].pc) =>
              /\ seg'[th[t].sg].cell[th[t].tkt % N].val = PCell(th[t].sg, th[t].tkt).val
              /\ th[t].pc = "p_pu_cas3" => th'[t].pc = "p_pu_full"
              /\ th[t].pc = "p_pu_cas2" => th'[t].pc \in {"p_pu_cas3", "p_pu_undo"}
              /\ hist'.results = hist.results
        /\ ReportsSuccess(t) =>
              /\ th[t].pc = "p_pu_cas3" /\ ~Reclaimed(t)
              /\ NowhereYet(PushArg(th[t]))
              /\ seg'[th[t].sg].cell[th[t].tkt % N].val = PushArg(th[t])]_vars

\* thread t is about to attempt its CAS (c) on a cell whose marker a consumer
\* has taken out and whose epoch the consumer has advanced
C35_ReclaimedBeforeCommit ==
  \E t \in Threads :
     /\ Reclaimed(t) /\ th[t].pc = "p_pu_cas3"
     /\ \E g \in hist.given :
           g[1] = th[t].sg /\ g[3] = th[t].tkt % N /\ g[4] >= th[t].tkt

\* ------------------------------------------------ cell ownership in Variant-M
\* thread t has advanced tail to claim position p of segment s and has not yet
\* published the cell's sequence number
MTQ_Filling(t, s, p) ==
  /\ th[t].sg = s /\ th[t].pc \in {"m_pu_wval", "m_pu_widx"}
  /\ Remap(N, th[t].tkt % N) = p
\* thread t has advanced head to claim position p of segment s and has not yet
\* stored the cell's next sequence number
MTQ_Draining(t, s, p) ==
  /\ th[t].sg = s /\ th[t].pc \in {"m_po_rval", "m_po_widx"}
  /\ Remap(N, th[t].tkt % N) = p

InitExcl ==
  \/ \E size \in 1..2 :
       Construct("bare", "M", FALSE, size, MAX_SEGMENTS,
                 <<Pushes(0, 2), Pushes(1, 1), Pops(2)>>)
  \/ Construct("bare", "M", FALSE, 2, MAX_SEGMENTS, <<Pushes(0, 3), Pops(2), Pops(2)>>)
ExclSteps(t) ==
  \/ CallStep(t) \/ MTQPushStep(t) \/ MTQPopStep(t)
NextExcl == \E t \in Threads : ExclSteps(t)
SpecExcl == InitExcl /\ [][NextExcl]_vars

\* C36: in Variant-M, while a producer is between its CAS on tail and the
\* publication of the cell's sequence number no other thread is between its
\* own CAS on head or tail and its sequence store on the same cell, so the
\* plain write and read of the cell's value never overlap.
C36_ExclusiveCell ==
  cfg.variant = "M" =>
    \A s \in live : \A p \in DOMAIN seg[s].cell : \A t, u \in Threads :
       (t # u /\ MTQ_Filling(t, s, p)) => ~(MTQ_Filling(u, s, p) \/ MTQ_Draining(u, s, p))

\* ------------------------------------------------ the cache remap
\* cells per cache line: CRQCell<T, true> fills a line of 64 bytes,
\* CRQCell<T, false> is 16 bytes (DISABLE_PADDING)
CellsPerLine == {1, 4}
MaxRingSize == 10

\* numCacheLines((size_par * cell_size) / cache_line_size), the cell size
\* being the cache line divided by the cells per line
numCacheLines(cells, size) == size \div cells
\* operator[](i)
CacheRemap_identity(cells, size, i) == i
CacheRemap(cells, size, i) ==
  (i % numCacheLines(cells, size)) * cells + i \div numCacheLines(cells, size)
\* what remap[i] can evaluate to: with no cache line the division by zero is
\* undefined, any index in or out of the array
RemapOutcomes(cells, size, i) ==
  IF numCacheLines(cells, size) = 0 THEN 0..size ELSE {CacheRemap(cells, size, i)}

\* A segment of Variant-C or Variant-M is constructed with a requested size,
\* with or without DISABLE_POW2, with padded or dense cells; seg is the list of
\* the positions remap gives for the logical indices 0, 1, ... as the
\* constructor loop initialises the cells.
InitRemap ==
  \E v \in {"C", "M"}, pow2 \in BOOLEAN, size \in 1..MaxRingSize, cells \in CellsPerLine :
     /\ SegmentSize(v, pow2, size) <= MaxRingSize
     /\ cfg = [adapter |-> "remap", variant |-> v, pow2 |-> pow2,
               N |-> SegmentSize(v, pow2, size), sizeRing |-> size,
               cap |-> SegmentSize(v, pow2, size), K |-> MAX_SEGMENTS, size |-> size,
               tickets |-> MaxTicket, cells |-> cells]
     /\ seg = <<>>
     /\ live = {} /\ freed = {} /\ qhead = NULL /\ qtail = NULL
     /\ HP = [t \in Threads |-> [h \in 0..(maxHPs - 1) |-> NULL]]
     /\ Retired = [t \in Threads |-> <<>>]
     /\ ctr = [itemsPushed |-> 0, itemsPopped |-> 0, segmentHeadIdx |-> 0, segmentTailIdx |-> 0]
     /\ th = [t \in Threads |-> IdleLocals]
     /\ prog = [t \in Threads |-> <<>>]
     /\ hist = [invoked |-> {}, results |-> [t \in Threads |-> <<>>],
                drained |-> FALSE, overtaken |-> FALSE, falseEmpty |-> FALSE,
                len |-> -1, lenOver |-> FALSE, given |-> {}, dropped |-> FALSE]
     /\ uaf = FALSE

\* array[remap[i % sizeRing]].idx.store(i) for the next i of the constructor loop
Remap_InitCell ==
  /\ cfg.adapter = "remap"
  /\ Len(seg) < N
  /\ \E p \in RemapOutcomes(cfg.cells, N, Len(seg) % N) : seg' = Append(seg, p)
  /\ UNCHANGED <<cfg, live, freed, qhead, qtail, HP, Retired, ctr, th, prog, hist, uaf>>

NextRemap == Remap_InitCell
SpecRemap == InitRemap /\ [][NextRemap]_vars

\* C37: for every ring size a segment can be constructed with, the remap sends
\* distinct logical positions to distinct cells and every position to a cell of
\* the array.
C37_RemapBijection ==
  cfg.adapter = "remap" =>
    \A j \in 1..Len(seg) :
       /\ seg[j] \in 0..(N - 1)
       /\ \A k \in 1..Len(seg) : j # k => seg[j] # seg[k]

\* ------------------------------------------------ the counters of the bounded-item adapter
\* C38: in the bounded-item adapter itemsPopped never exceeds itemsPushed, so
\* the unsigned difference read by push and length() never wraps around.
C38_CountersNeverCross ==
  cfg.adapter = "bitem" => ctr.itemsPopped <= ctr.itemsPushed

\* ------------------------------------------------ polling an empty queue
MaxPolls == 3
\* k pops of the empty queue, then one push and one pop
Poll(k) == Pops(k) \o Pushes(0, 1) \o Pops(1)

\* One thread polls every kind of queue alone; on the linked adapter two
\* consumers poll side by side and the push is called once both have finished
\* polling.
InitPoll ==
  \/ \E a \in {"linked", "bseg", "bitem", "bare"}, v \in Variants, pow2 \in BOOLEAN,
        size \in 1..2, k \in 1..MaxPolls :
        /\ a = "bare" <=> v = "M"
        /\ ConstructWith(LongTicket, SegIds, a, v, pow2, size, 2, <<Poll(k)>>)
  \/ \E v \in {"C", "P"}, size \in 1..2 :
        ConstructWith(LongTicket, SegIds, "linked", v, FALSE, size, MAX_SEGMENTS,
                      <<Poll(2), Pops(2)>>)
\* the push is not called before every other thread has returned from its polls
AfterPolls(t) ==
  (th[t].pc = "idle" /\ prog[t] # <<>> /\ Head(prog[t]) # 0) =>
     \A u \in Threads \ {t} : th[u].pc = "idle" /\ prog[u] = <<>>
PollInvoke(t) == AfterPolls(t) /\ Invoke(t)
\* the steps of a push that lands in the first cell it tries and of pops that
\* find the queue empty or take the one item
PollSteps(t) ==
  \/ PollInvoke(t)
  \/ Push_LoadTail(t) \/ Push_Protect(t) \/ Push_Validate(t) \/ Push_LoadNext(t)
  \/ Push_ReturnTrue(t) \/ Push_LengthPushed(t) \/ Push_LengthPopped(t) \/ Push_CountItem(t)
  \/ Pop_LoadHead(t) \/ Pop_Protect(t) \/ Pop_Validate(t) \/ Pop_LoadNext(t)
  \/ Pop_Return(t) \/ Pop_CountItem(t) \/ FixStep(t)
  \/ CRQ_PushTicket(t) \/ CRQ_PushRead(t) \/ CRQ_PushCAS(t)
  \/ CRQ_PopTicket(t) \/ CRQ_PopRead(t) \/ CRQ_PopCAS(t)
  \/ PRQ_PushTicket(t) \/ PRQ_PushReadIdx(t) \/ PRQ_PushReadVal(t) \/ PRQ_PushReserve(t)
  \/ PRQ_PushEpoch(t) \/ PRQ_PushCommit(t)
  \/ PRQ_PopTicket(t) \/ PRQ_PopReadIdx(t) \/ PRQ_PopReadVal(t) \/ PRQ_PopStore(t)
  \/ PRQ_PopReadTail(t) \/ PRQ_PopAdvance(t)
  \/ MTQPushStep(t) \/ MTQPopStep(t)
\* the steps by which a push moves on from a cell it could not fill, a segment
\* is closed, added or left behind, a bounded push gives up, or a pop deals with
\* a cell another thread is working on
OffCourse(t) ==
  \/ CRQ_PushFull(t) \/ CRQ_PushClose(t) \/ CRQ_PushHead(t)
  \/ PRQ_PushFull(t) \/ PRQ_PushClose(t) \/ PRQ_PushUndo(t) \/ PRQ_PopMark(t)
  \/ PRQ_PopClearBottom(t) \/ MTQ_PushClose(t)
  \/ Push_NewSegment(t) \/ Push_Link(t) \/ Push_SwingTail(t) \/ Push_AdvanceTail(t)
  \/ Push_CheckClosed(t) \/ Push_RecheckNext(t) \/ Push_CountTail(t) \/ Push_CountHead(t)
  \/ Push_CountSegment(t) \/ Push_CountLinked(t) \/ Push_ReturnFalse(t)
  \/ Pop_AdvanceHead(t) \/ Pop_ProtectNext(t) \/ Pop_CountSegment(t) \/ Retire_Scan(t)
NextPoll == \E t \in Threads : PollSteps(t)
SpecPoll == InitPoll /\ [][NextPoll]_vars

\* C39: after any number of pops of the empty queue, each returning nullptr,
\* the push that follows fills the first cell it tries and reports success, no
\* segment is closed or added, and the pop after it returns the pushed item.
C39_PollingHarmless ==
  LET r == ResultsOf(1) IN
  /\ \A s \in live : ~isClosed(s)
  /\ \A t \in Threads : ~ENABLED OffCourse(t)
  /\ \A t \in Threads : \A i \in 1..Len(ResultsOf(t)) :
        LET c == ResultsOf(t)[i] IN
        /\ c.op # 0 => c.res = 1
        /\ (c.op = 0 /\ hist.invoked = {}) => c.res = NULL
  /\ \A i \in 1..Len(r) : (r[i].op # 0 /\ i < Len(r)) => r[i + 1].res = r[i].op

\* a thread has polled the empty queue MaxPolls times, pushed and popped its item
C39_PolledThenServed ==
  LET r == ResultsOf(1) IN
  /\ Len(r) = MaxPolls + 2
  /\ \A i \in 1..MaxPolls : r[i].op = 0 /\ r[i].res = NULL
  /\ r[MaxPolls + 1].res = 1
  /\ r[MaxPolls + 2].res = r[MaxPolls + 1].op

\* ------------------------------------------------ the counters of the bounded-segment adapter
\* C40: in the bounded-segment adapter segmentHeadIdx never exceeds
\* segmentTailIdx, and whenever no push or pop is in progress
\* segmentTailIdx - segmentHeadIdx + 1 is the number of segments linked from
\* the global head to the global tail.
C40_SegmentCounters ==
  cfg.adapter = "bseg" =>
    /\ ctr.segmentHeadIdx <= ctr.segmentTailIdx
    /\ (\A t \in Threads : th[t].pc = "idle") =>
          ctr.segmentTailIdx - ctr.segmentHeadIdx + 1 = Cardinality(Chain(qhead))

====
